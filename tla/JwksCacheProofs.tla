--------------------------- MODULE JwksCacheProofs ---------------------------
(***************************************************************************)
(* What the key-set cache promises, for any number of callers and kids and *)
(* for all lifetimes, refetch bounds and fetch durations.                  *)
(*                                                                         *)
(* The argument follows a key set from the issuer to a verdict: the        *)
(* response is a snapshot taken while its fetch was under way, the memo is *)
(* such a snapshot, at most a fetch older than its date, and whoever reads *)
(* it after the second look reads one dated less than MIN_REFETCH ago.     *)
(***************************************************************************)
EXTENDS JwksCache, TLAPS

\* The keys are those the issuer published, but for what it changed at t or later.
SnapshotSince(keys, t) ==
    \A k \in Kid : (k \in keys) # (k \in published) => since[k] >= t

\* Whoever fetches does so within the timeout, and because the memo, which nobody
\* else can replace meanwhile, was not recent.
Fetching ==
    \A c \in Caller : pc[c] \in {"fetch", "store"} =>
        /\ begun <= now /\ now <= begun + FetchTime
        /\ memo = Absent \/ now - memo.at >= MIN_REFETCH

\* The response in flight is a snapshot of its fetch.
Snapshot == \A c \in Caller : pc[c] = "store" => SnapshotSince(got, begun)

\* The memo is a snapshot at most a fetch older than its date.
MemoSnapshot ==
    memo # Absent => memo.at <= now /\ SnapshotSince(memo.keys, memo.at - FetchTime)

\* After the second look the memo is recent.
Reading == \A c \in Caller : pc[c] = "read" => memo # Absent /\ now - memo.at < MIN_REFETCH

\* A key that was accepted is published, or was until a key set's lifetime and a
\* fetch ago; a kid that was refused is not published, or has not been for long.
Verdicts ==
    \A c \in Caller :
        /\ verdict[c] \in Kid =>
              \E t \in Ttls : verdict[c] \notin published => now - since[verdict[c]] < t + FetchTime
        /\ verdict[c] = "unknown" /\ want[c] \in published =>
              now - since[want[c]] < MIN_REFETCH + FetchTime

\* The inductive invariant.
IInv == TypeOK /\ Fetching /\ Snapshot /\ MemoSnapshot /\ Reading /\ Verdicts

USE JwksAssumption

----------------------------------------------------------------------------
(* The type, and the lock *)

\* The key that is selected is one of the key set.
LEMMA SelectKey ==
    ASSUME NEW keys \in SUBSET Kid, NEW kid \in Kid \cup {NoKid}
    PROVE  /\ select_key(keys, kid) \subseteq keys
           /\ kid \in keys => select_key(keys, kid) # {}
BY DEF select_key

\* A memo is not the absence of one.
LEMMA StoredMemo ==
    ASSUME TypeOK, NEW c \in Caller, store(c)
    PROVE  memo' \in Memo /\ memo' # Absent /\ memo'.at = now /\ memo'.keys = got
BY DEF TypeOK, store, Memo

\* Every step keeps the type, and with it the single holder of the lock.
LEMMA NextType == TypeOK /\ [Next]_vars => TypeOK'
<1> SUFFICES ASSUME TypeOK, [Next]_vars PROVE TypeOK'
  OBVIOUS
<1> USE DEF TypeOK, issuer, Goto, Answer, Pcs
<1>1. ASSUME NEW c \in Caller, Verify(c) PROVE TypeOK'
  BY <1>1 DEF Verify
<1>2. ASSUME NEW c \in Caller, resolve(c) PROVE TypeOK'
  <2>1. CASE memo # Absent /\ fresh(memo) /\ select_key(memo.keys, want[c]) # {}
    <3>1. PICK k \in select_key(memo.keys, want[c]) : Answer(c, k)
      BY <1>2, <2>1 DEF resolve
    <3>2. k \in Kid
      BY <2>1, <3>1, SelectKey DEF Memo
    <3> QED
      BY <1>2, <3>1, <3>2 DEF resolve
  <2>2. CASE ~(memo # Absent /\ fresh(memo) /\ select_key(memo.keys, want[c]) # {})
    BY <1>2, <2>2 DEF resolve
  <2> QED
    BY <2>1, <2>2
<1>3. ASSUME NEW c \in Caller, lock(c) PROVE TypeOK'
  BY <1>3 DEF lock
<1>4. ASSUME NEW c \in Caller, refresh(c) PROVE TypeOK'
  BY <1>4 DEF refresh
<1>5. ASSUME NEW c \in Caller, Served(c) PROVE TypeOK'
  BY <1>5 DEF Served
<1>6. ASSUME NEW c \in Caller, fetch_fails(c) PROVE TypeOK'
  BY <1>6 DEF fetch_fails
<1>7. ASSUME NEW c \in Caller, store(c) PROVE TypeOK'
  BY <1>7, StoredMemo DEF store
<1>8. ASSUME NEW c \in Caller, read(c) PROVE TypeOK'
  <2>1. PICK v \in Kid \cup {"unknown"} : Answer(c, v)
    <3>1. CASE select_key(memo.keys, want[c]) = {}
      BY <1>8, <3>1 DEF read
    <3>2. CASE select_key(memo.keys, want[c]) # {}
      <4>1. PICK k \in select_key(memo.keys, want[c]) : Answer(c, k)
        BY <1>8, <3>2 DEF read
      <4> QED
        BY <1>8, <4>1, SelectKey DEF read, Memo
    <3> QED
      BY <3>1, <3>2
  <2> QED
    BY <1>8, <2>1 DEF read
<1>9. ASSUME NEW c \in Caller, Drop(c) PROVE TypeOK'
  BY <1>9 DEF Drop
<1>10. ASSUME NEW k \in Kid, Rotate(k) PROVE TypeOK'
  BY <1>10 DEF Rotate
<1>11. CASE Tick
  BY <1>11 DEF Tick
<1>12. CASE UNCHANGED vars
  BY <1>12 DEF vars
<1> QED
  BY <1>1, <1>2, <1>3, <1>4, <1>5, <1>6, <1>7, <1>8, <1>9, <1>10, <1>11, <1>12 DEF Next, Work

\* The cache and its callers keep their type, and the single-flight lock has one holder,
\* who checks or fetches (JwksCache!TypeOK).
THEOREM TypeCorrect == Spec => []TypeOK
<1>1. Init => TypeOK
  BY DEF Init, TypeOK, Pcs, Never
<1> QED
  BY <1>1, NextType, PTL DEF Spec

----------------------------------------------------------------------------
(* From the issuer to a verdict *)

\* The lock keeps one fetch in flight, begun when the memo was not recent.
LEMMA NextFetching == TypeOK /\ Fetching /\ MemoSnapshot /\ [Next]_vars => Fetching'
<1> SUFFICES ASSUME TypeOK, Fetching, MemoSnapshot, [Next]_vars, NEW d \in Caller,
                    pc'[d] \in {"fetch", "store"}
             PROVE  /\ begun' <= now' /\ now' <= begun' + FetchTime
                    /\ memo' = Absent \/ now' - memo'.at >= MIN_REFETCH
  BY DEF Fetching
<1> USE DEF TypeOK, Goto, Answer
<1>1. CASE pc[d] \in {"fetch", "store"} /\ UNCHANGED <<now, begun, memo>>
  BY <1>1 DEF Fetching
<1>2. ASSUME NEW c \in Caller, refresh(c)
      PROVE  /\ begun' <= now' /\ now' <= begun' + FetchTime
             /\ memo' = Absent \/ now' - memo'.at >= MIN_REFETCH
  <2>1. CASE c = d
    BY <1>2, <2>1 DEF refresh, recent, Memo
  <2>2. CASE c # d
    BY <1>2, <2>2 DEF refresh
  <2> QED
    BY <2>1, <2>2
<1>3. ASSUME NEW c \in Caller, store(c) PROVE FALSE
  BY <1>3 DEF store
<1>4. CASE Tick
  BY <1>4 DEF Tick, Fetching, Memo
<1>5. ASSUME NEW c \in Caller, Verify(c) \/ resolve(c) \/ lock(c) \/ Served(c) \/ fetch_fails(c) \/ read(c) \/ Drop(c)
      PROVE  pc[d] \in {"fetch", "store"} /\ UNCHANGED <<now, begun, memo>>
  BY <1>5 DEF Verify, resolve, lock, Served, fetch_fails, read, Drop
<1>6. ASSUME NEW k \in Kid, Rotate(k) PROVE pc[d] \in {"fetch", "store"} /\ UNCHANGED <<now, begun, memo>>
  BY <1>6 DEF Rotate
<1>7. CASE UNCHANGED vars
  BY <1>1, <1>7 DEF vars
<1> QED
  BY <1>1, <1>2, <1>3, <1>4, <1>5, <1>6, <1>7 DEF Next, Work

\* A snapshot ages well: what the issuer changes is dated now.
LEMMA SnapshotKept ==
    ASSUME TypeOK, NEW keys, NEW t \in Int, t <= now, SnapshotSince(keys, t), [Next]_vars
    PROVE  SnapshotSince(keys, t)'
<1>1. ASSUME NEW k \in Kid, Rotate(k) PROVE SnapshotSince(keys, t)'
  BY <1>1 DEF SnapshotSince, Rotate, TypeOK
<1>2. CASE UNCHANGED issuer
  BY <1>2 DEF SnapshotSince, issuer
<1> QED
  BY <1>1, <1>2 DEF Next, Work, vars, issuer, Verify, resolve, lock, refresh, Served, fetch_fails, store, read,
                    Drop, Tick

\* The response in flight stays a snapshot of its fetch.
LEMMA NextSnapshot == TypeOK /\ Fetching /\ Snapshot /\ [Next]_vars => Snapshot'
<1> SUFFICES ASSUME TypeOK, Fetching, Snapshot, [Next]_vars, NEW d \in Caller, pc'[d] = "store"
             PROVE  SnapshotSince(got, begun)'
  BY DEF Snapshot
<1>1. CASE pc[d] = "store" /\ UNCHANGED <<got, begun>>
  <2>1. SnapshotSince(got, begun) /\ begun \in Int /\ begun <= now
    BY <1>1 DEF Snapshot, Fetching, TypeOK
  <2>2. ASSUME NEW g, g = got, NEW b, b = begun PROVE SnapshotSince(g, b)'
    BY <2>1, <2>2, SnapshotKept
  <2> QED
    BY <1>1, <2>2 DEF SnapshotSince
<1>2. ASSUME NEW c \in Caller, Served(c) PROVE SnapshotSince(got, begun)'
  BY <1>2 DEF Served, SnapshotSince, issuer
<1>3. ASSUME NEW c \in Caller,
             Verify(c) \/ resolve(c) \/ lock(c) \/ refresh(c) \/ fetch_fails(c) \/ store(c) \/ read(c) \/ Drop(c)
      PROVE  pc[d] = "store" /\ UNCHANGED <<got, begun>>
  BY <1>3 DEF Verify, resolve, lock, refresh, fetch_fails, store, read, Drop, TypeOK, Goto, Answer
<1>4. CASE (\E k \in Kid : Rotate(k)) \/ Tick \/ UNCHANGED vars
  BY <1>1, <1>4 DEF Rotate, Tick, vars
<1> QED
  BY <1>1, <1>2, <1>3, <1>4 DEF Next, Work

\* The memo stays a snapshot at most a fetch older than its date.
LEMMA NextMemo == TypeOK /\ Fetching /\ Snapshot /\ MemoSnapshot /\ [Next]_vars => MemoSnapshot'
<1> SUFFICES ASSUME TypeOK, Fetching, Snapshot, MemoSnapshot, [Next]_vars PROVE MemoSnapshot'
  OBVIOUS
<1>1. ASSUME NEW c \in Caller, store(c) PROVE MemoSnapshot'
  <2>1. memo'.at = now /\ memo'.keys = got /\ UNCHANGED <<now, published, since>>
    BY <1>1, StoredMemo DEF store, issuer
  <2>2. SnapshotSince(got, begun) /\ now - FetchTime <= begun
    BY <1>1 DEF store, Snapshot, Fetching, TypeOK
  <2> QED
    BY <2>1, <2>2 DEF MemoSnapshot, SnapshotSince, TypeOK
<1>2. CASE UNCHANGED memo
  <2> SUFFICES ASSUME memo # Absent PROVE memo.at <= now' /\ SnapshotSince(memo.keys, memo.at - FetchTime)'
    BY <1>2 DEF MemoSnapshot, SnapshotSince
  <2>1. now \in Int /\ memo.at \in Int /\ memo.at <= now /\ SnapshotSince(memo.keys, memo.at - FetchTime)
    BY DEF MemoSnapshot, TypeOK, Memo
  <2>2. now' >= now
    BY <2>1 DEF Next, Work, vars, Verify, resolve, lock, refresh, Served, fetch_fails, store, read, Drop, Rotate, Tick
  <2>3. ASSUME NEW g, g = memo.keys, NEW b, b = memo.at - FetchTime PROVE SnapshotSince(g, b)'
    BY <2>1, <2>3, SnapshotKept
  <2>4. now' \in Int
    BY NextType DEF TypeOK
  <2> QED
    BY <1>2, <2>1, <2>2, <2>3, <2>4 DEF SnapshotSince
<1> QED
  BY <1>1, <1>2 DEF Next, Work, vars, Verify, resolve, lock, refresh, Served, fetch_fails, read, Drop, Rotate, Tick

\* Whoever comes from the second look reads a recent memo.
LEMMA NextReading == TypeOK /\ Reading /\ [Next]_vars => Reading'
<1> SUFFICES ASSUME TypeOK, Reading, [Next]_vars, NEW d \in Caller, pc'[d] = "read"
             PROVE  memo' # Absent /\ now' - memo'.at < MIN_REFETCH
  BY DEF Reading
<1>1. CASE pc[d] = "read" /\ UNCHANGED <<memo, now>>
  BY <1>1 DEF Reading
<1>2. ASSUME NEW c \in Caller, refresh(c) PROVE memo' # Absent /\ now' - memo'.at < MIN_REFETCH
  <2>1. CASE c = d
    BY <1>2, <2>1 DEF refresh, recent, Goto, TypeOK
  <2>2. CASE c # d
    BY <1>2, <2>2, <1>1 DEF refresh, Goto, TypeOK
  <2> QED
    BY <2>1, <2>2
<1>3. ASSUME NEW c \in Caller, store(c) PROVE memo' # Absent /\ now' - memo'.at < MIN_REFETCH
  <2>1. memo' # Absent /\ memo'.at = now /\ now' = now /\ now \in Int
    <3>1. memo' # Absent /\ memo'.at = now
      BY <1>3, StoredMemo
    <3>2. now' = now /\ now \in Int
      BY <1>3 DEF store, TypeOK
    <3> QED
      BY <3>1, <3>2
  <2> QED
    BY <2>1
<1>4. ASSUME NEW c \in Caller,
             Verify(c) \/ resolve(c) \/ lock(c) \/ Served(c) \/ fetch_fails(c) \/ read(c) \/ Drop(c)
      PROVE  pc[d] = "read" /\ UNCHANGED <<memo, now>>
  BY <1>4 DEF Verify, resolve, lock, Served, fetch_fails, read, Drop, TypeOK, Goto, Answer
<1>5. CASE Tick
  BY <1>5 DEF Tick
<1>6. CASE (\E k \in Kid : Rotate(k)) \/ UNCHANGED vars
  BY <1>1, <1>6 DEF Rotate, vars
<1> QED
  BY <1>1, <1>2, <1>3, <1>4, <1>5, <1>6 DEF Next, Work

\* What a memo is made of.
LEMMA MemoType ==
    ASSUME TypeOK, memo # Absent
    PROVE  /\ memo.keys \subseteq Kid /\ memo.at \in 0..MaxTime /\ memo.ttl \in Ttls
           /\ memo.ttl \in Nat /\ MIN_REFETCH <= memo.ttl
<1>1. memo \in [keys : SUBSET Kid, at : 0..MaxTime, ttl : Ttls]
  BY DEF TypeOK, Memo
<1>2. memo.keys \subseteq Kid /\ memo.at \in 0..MaxTime /\ memo.ttl \in Ttls
  BY <1>1
<1> QED
  BY <1>2

\* A key of a memo that is fresh is published, or was until the lifetime of the memo
\* and a fetch ago.
LEMMA FreshKey ==
    ASSUME TypeOK, MemoSnapshot, memo # Absent, NEW k \in memo.keys, now - memo.at < memo.ttl
    PROVE  k \in Kid /\ \E t \in Ttls : k \notin published => now - since[k] < t + FetchTime
<1>1. /\ memo.at \in Int /\ memo.ttl \in Ttls /\ memo.ttl \in Nat /\ k \in Kid
      /\ now \in Int /\ since[k] \in Int
  BY MemoType DEF TypeOK
<1>2. k \notin published => since[k] >= memo.at - FetchTime
  BY <1>1 DEF MemoSnapshot, SnapshotSince
<1>3. k \notin published => now - since[k] < memo.ttl + FetchTime
  BY <1>1, <1>2
<1> QED
  BY <1>1, <1>3

\* A published kid that a recent memo lacks has not been published for long.
LEMMA MissingKey ==
    ASSUME TypeOK, MemoSnapshot, memo # Absent, now - memo.at < MIN_REFETCH,
           NEW k \in published, k \notin memo.keys
    PROVE  now - since[k] < MIN_REFETCH + FetchTime
<1>1. memo.at \in Int /\ now \in Int /\ k \in Kid /\ since[k] \in Int
  BY MemoType DEF TypeOK
<1>2. since[k] >= memo.at - FetchTime
  BY <1>1 DEF MemoSnapshot, SnapshotSince
<1> QED
  BY <1>1, <1>2

\* Every verdict is justified when it is given, and the issuer's changes do not make
\* it wrong.
LEMMA NextVerdicts == TypeOK /\ MemoSnapshot /\ Reading /\ Verdicts /\ [Next]_vars => Verdicts'
<1> SUFFICES ASSUME TypeOK, MemoSnapshot, Reading, Verdicts, [Next]_vars PROVE Verdicts'
  OBVIOUS
<1>1. ASSUME NEW c \in Caller, NEW v, v \notin Kid, v # "unknown",
             verdict' = [verdict EXCEPT ![c] = v], \A d \in Caller \ {c} : want'[d] = want[d],
             UNCHANGED <<now, published, since>>
      PROVE  Verdicts'
  BY <1>1 DEF Verdicts, TypeOK
<1>2. ASSUME NEW c \in Caller, NEW k \in memo.keys, memo # Absent, now - memo.at < memo.ttl,
             verdict' = [verdict EXCEPT ![c] = k], UNCHANGED <<now, published, since, want>>
      PROVE  Verdicts'
  <2>1. k \in Kid /\ \E t \in Ttls : k \notin published => now - since[k] < t + FetchTime
    BY <1>2, FreshKey
  <2> QED
    BY <1>2, <2>1 DEF Verdicts, TypeOK
<1>3. ASSUME NEW c \in Caller, Verify(c) PROVE Verdicts'
  BY <1>1, <1>3 DEF Verify, TypeOK, issuer
<1>4. ASSUME NEW c \in Caller, resolve(c) PROVE Verdicts'
  <2>1. CASE UNCHANGED verdict
    BY <1>4, <2>1 DEF resolve, Verdicts, issuer
  <2>2. ASSUME memo # Absent, fresh(memo), NEW k \in select_key(memo.keys, want[c]), Answer(c, k)
        PROVE  Verdicts'
    <3>1. k \in memo.keys
      BY <2>2, SelectKey DEF TypeOK, Memo
    <3> QED
      BY <1>2, <1>4, <2>2, <3>1 DEF resolve, Answer, fresh, issuer
  <2> QED
    BY <1>4, <2>1, <2>2 DEF resolve
<1>5. ASSUME NEW c \in Caller, fetch_fails(c) \/ Drop(c) PROVE Verdicts'
  BY <1>1, <1>5 DEF fetch_fails, Drop, Answer, issuer
<1>6. ASSUME NEW c \in Caller, read(c) PROVE Verdicts'
  <2>0. memo # Absent /\ now - memo.at < MIN_REFETCH /\ UNCHANGED <<now, published, since, want>>
    BY <1>6 DEF read, Reading, issuer
  <2>1. now - memo.at < memo.ttl
    <3>1. memo.at \in Int /\ now \in Int /\ memo.ttl \in Nat /\ MIN_REFETCH <= memo.ttl
      BY <2>0, MemoType DEF TypeOK
    <3> QED
      BY <2>0, <3>1
  <2>2. ASSUME NEW k \in select_key(memo.keys, want[c]), Answer(c, k) PROVE Verdicts'
    <3>1. k \in memo.keys
      BY <2>0, <2>2, SelectKey DEF TypeOK, Memo
    <3> QED
      BY <1>2, <2>0, <2>1, <2>2, <3>1 DEF Answer
  <2>3. ASSUME select_key(memo.keys, want[c]) = {}, Answer(c, "unknown") PROVE Verdicts'
    <3>1. want[c] \notin memo.keys
      BY <2>0, <2>3, SelectKey DEF TypeOK, Memo
    <3>2. want[c] \in published => now - since[want[c]] < MIN_REFETCH + FetchTime
      BY <2>0, <3>1, MissingKey
    <3> QED
      BY <2>0, <2>3, <3>2 DEF Verdicts, TypeOK, Answer
  <2> QED
    BY <1>6, <2>2, <2>3 DEF read
<1>7. ASSUME NEW k \in Kid, Rotate(k) PROVE Verdicts'
  <2> SUFFICES ASSUME NEW c \in Caller
               PROVE  /\ verdict[c] \in Kid =>
                            \E t \in Ttls : verdict[c] \notin published' => now - since'[verdict[c]] < t + FetchTime
                      /\ verdict[c] = "unknown" /\ want[c] \in published' =>
                            now - since'[want[c]] < MIN_REFETCH + FetchTime
    BY <1>7 DEF Rotate, Verdicts
  <2>1. now - since'[k] = 0 /\ \A d \in Kid \ {k} : since'[d] = since[d] /\ (d \in published' <=> d \in published)
    BY <1>7 DEF Rotate, TypeOK
  <2>2. CASE verdict[c] \in Kid
    <3>1. PICK t \in Ttls : verdict[c] \notin published => now - since[verdict[c]] < t + FetchTime
      BY <2>2 DEF Verdicts
    <3>2. t \in Nat /\ 0 < t + FetchTime
      OBVIOUS
    <3>3. verdict[c] \notin published' => now - since'[verdict[c]] < t + FetchTime
      BY <2>1, <2>2, <3>1, <3>2
    <3> QED
      BY <2>2, <3>3
  <2>3. CASE verdict[c] = "unknown"
    <3>1. published' \subseteq Kid
      BY <1>7 DEF Rotate, TypeOK
    <3> QED
      BY <2>1, <2>3, <3>1 DEF Verdicts
  <2> QED
    BY <2>2, <2>3
<1>8. CASE Tick
  BY <1>8 DEF Tick, Verdicts
<1>9. CASE UNCHANGED <<verdict, want, now, published, since>>
  BY <1>9 DEF Verdicts
<1> QED
  BY <1>3, <1>4, <1>5, <1>6, <1>7, <1>8, <1>9 DEF Next, Work, vars, lock, refresh, Served, store, issuer

----------------------------------------------------------------------------
(* The theorems *)

\* The invariant holds from the start.
LEMMA InitInv == Init => IInv
BY DEF Init, IInv, TypeOK, Pcs, Never, Fetching, Snapshot, MemoSnapshot, Reading, Verdicts

\* Every step keeps it.
LEMMA NextInv == IInv /\ [Next]_vars => IInv'
BY NextType, NextFetching, NextSnapshot, NextMemo, NextReading, NextVerdicts DEF IInv

\* A withdrawn key stops verifying tokens: within the lifetime of a key set and the
\* duration of a fetch (jwks.rs: fresh, resolve, refresh).
THEOREM WithdrawalTakesEffect == Spec => []WithdrawnKeysExpire
<1>1. IInv => WithdrawnKeysExpire
  BY DEF IInv, Verdicts, WithdrawnKeysExpire
<1> QED
  BY <1>1, InitInv, NextInv, PTL DEF Spec

\* A rotation is picked up: a kid that has been published for longer than the refetch
\* bound and a fetch is never refused (jwks.rs: refresh and the retry after it).
THEOREM RotationTakesEffect == Spec => []RotationPickedUp
<1>1. IInv => RotationPickedUp
  BY DEF IInv, Verdicts, RotationPickedUp
<1> QED
  BY <1>1, InitInv, NextInv, PTL DEF Spec

\* Refetches that succeed are MIN_REFETCH apart, however many callers miss at once: the
\* second look is made under the lock, and the lock is kept until the store.
THEOREM RefetchBound == Spec => RefetchesSpaced
<1>1. IInv /\ [Next]_vars => [memo = Absent \/ now - memo.at >= MIN_REFETCH]_memo
  <2> SUFFICES ASSUME IInv, [Next]_vars, memo' # memo PROVE memo = Absent \/ now - memo.at >= MIN_REFETCH
    OBVIOUS
  <2>1. PICK c \in Caller : store(c)
    BY DEF Next, Work, vars, Verify, resolve, lock, refresh, Served, fetch_fails, read, Drop, Rotate, Tick
  <2> QED
    BY <2>1 DEF IInv, Fetching, store
<1> QED
  BY <1>1, InitInv, NextInv, PTL DEF Spec, RefetchesSpaced

==============================================================================
