--------------------------- MODULE RenewLoopProofs ---------------------------
(***************************************************************************)
(* The safety invariants of the renew loop, for every lifetime, threshold, *)
(* jitter, cap, backoff and latency and for every set of faults.           *)
(***************************************************************************)
EXTENDS RenewLoop, TLAPS

\* The key is read only after a certificate has been.
KeyAfterCert == pc = "load_key" => loaded # Torn

\* Where no time passes, and where the first iteration may be.
Instant == pc \in {"load", "load_key", "wait", "write", "rename"} => left = 0
Started == first => pc \in {"load", "load_key", "startup", "stopped", "failed"}

\* What the other command has done to the key pair at each of its steps.
Pairing ==
    /\ other \in {"idle", "asked", "issued"} => keys.key = keys.cert /\ keys.seen = keys.cert
    /\ other \in {"keyed", "cert", "done"} => keys.key = 1
    /\ other = "done" => keys.cert = 1

\* Without the other command there is one key pair.
OneKey ==
    faults \cap {"rekey", "bootstrap"} = {} =>
        other = "idle" /\ keys = [key |-> 0, cert |-> 0, seen |-> 0, used |-> 0]

\* The age a certificate reaches before the loop asks for the next.
Ceiling == Max2(Threshold, Latency)

\* After the first renewal, with a CA that answers: how old the certificate read, and
\* with it the one in the file, may be at each place of the loop.
Steady ==
    RoomToRenew /\ faults \subseteq {"replace"} /\ renewed =>
        /\ ~first
        /\ pc \notin {"startup", "backoff", "failed"}
        /\ disk["cert"] # Torn
        /\ pc = "exec" => disk["cert"] + left <= Latency
        /\ pc = "load" => disk["cert"] <= Latency
        /\ pc \in {"load_key", "wait", "nap", "request", "write", "rename"} =>
              loaded # Torn /\ disk["cert"] <= loaded
        /\ pc = "load_key" => loaded <= Latency
        /\ pc \in {"wait", "nap"} => loaded + due <= Ceiling
        /\ pc = "nap" => left <= due
        /\ pc = "request" => loaded + left <= Ceiling + Latency
        /\ pc \in {"write", "rename"} => loaded <= Ceiling + Latency
        /\ pc = "stopped" => disk["cert"] + left <= Ceiling

----------------------------------------------------------------------------
(* The state's type *)

\* A failure count and a ceiling of the backoff are in their ranges.
LEMMA CeilingType == ASSUME NEW k \in 0..6 PROVE backoff_ceiling(k) \in 0..CAP_SECS
<1>1. Min2(k, 5) \in 0..5
  BY DEF Min2
<1>2. 2^Min2(k, 5) \in Nat
  <2>1. 2^0 \in Nat /\ 2^1 \in Nat /\ 2^2 \in Nat /\ 2^3 \in Nat /\ 2^4 \in Nat /\ 2^5 \in Nat
    OBVIOUS
  <2>2. Min2(k, 5) = 0 \/ Min2(k, 5) = 1 \/ Min2(k, 5) = 2 \/ Min2(k, 5) = 3 \/ Min2(k, 5) = 4 \/ Min2(k, 5) = 5
    BY <1>1
  <2> QED
    BY <2>1, <2>2, Zenon
<1>3. BASE_SECS * 2^Min2(k, 5) \in Nat
  BY <1>2, RenewLoopAssumption
<1> QED
  BY <1>3, RenewLoopAssumption DEF backoff_ceiling, Min2

\* What BackOff does to the failure count and to the sleep.
LEMMA BackOffType ==
    ASSUME TypeOK, BackOff
    PROVE  pc' = "backoff" /\ left' \in 0..CAP_SECS /\ n' \in 0..6
<1>1. PICK d \in 0..backoff_ceiling(n) : left' = d
  BY DEF BackOff
<1>2. backoff_ceiling(n) \in 0..CAP_SECS
  BY CeilingType DEF TypeOK
<1>3. left' \in 0..CAP_SECS
  BY <1>1, <1>2, RenewLoopAssumption
<1>4. n' \in 0..6
  BY DEF BackOff, TypeOK, Min2
<1> QED
  BY <1>3, <1>4 DEF BackOff

\* The time until a renewal is at most a lifetime, and for a certificate just issued it
\* ends at the ceiling.
LEMMA NextRenewal ==
    ASSUME NEW a \in Age, NEW j \in 0..Jitter
    PROVE  /\ next_renewal(a, j) \in Age
           /\ a <= Latency => a + next_renewal(a, j) <= Ceiling
BY RenewLoopAssumption DEF next_renewal, Max2, Age, Ceiling

\* A certificate grows a second older, up to its end.
LEMMA OlderType ==
    ASSUME NEW a \in Age \cup {Torn}
    PROVE  /\ Older(a) \in Age \cup {Torn}
           /\ Older(a) = Torn <=> a = Torn
           /\ a = Life => Older(a) = Life
           /\ a # Torn => a <= Older(a) /\ Older(a) <= a + 1
BY RenewLoopAssumption DEF Older, Age, Torn, Min2

\* Nobody changes what the scenario allows.
LEMMA SameFaults == [Next]_vars => faults' = faults
BY DEF Next, Step, Command, vars, load, cycle, wait_until, WakeElapsed, WakeHangup, WakeStop, RenewOk,
       RenewTransient, RenewRejected, LocalError, write_atomic, Renamed, run_exec, rekey, certificate,
       post_json, write_files, Kill, Tick, Hangup, Terminate, Replace, Crash

\* Every step keeps the type.
LEMMA NextType == TypeOK /\ KeyAfterCert /\ [Next]_vars => TypeOK' /\ KeyAfterCert'
<1> SUFFICES ASSUME TypeOK, KeyAfterCert, [Next]_vars PROVE TypeOK' /\ KeyAfterCert'
  OBVIOUS
<1>f. faults' = faults /\ Files' = Files /\ Out' = Out /\ Out \in Files /\ "cert" \in Files
  BY SameFaults DEF Files, Out
<1> USE RenewLoopAssumption, <1>f DEF Pcs, Sleeping, Age, keyVars, KeyAfterCert
<1>b. BackOff => pc' \in Pcs /\ n' \in 0..6 /\ left' \in 0..Max2(CAP_SECS, Max2(MaxSleep, Latency))
  BY BackOffType DEF Max2
<1>l. Latency \in 0..Max2(CAP_SECS, Max2(MaxSleep, Latency)) /\ 0 \in 0..Max2(CAP_SECS, Max2(MaxSleep, Latency))
  BY DEF Max2
<1>1. CASE load
  <2>1. CASE disk["cert"] = Torn
    <3>1. CASE first
      BY <1>1, <2>1, <3>1 DEF load, Unreadable, TypeOK
    <3>2. CASE ~first
      <4>1. pc' = "backoff" /\ n' \in 0..6 /\ left' \in 0..Max2(CAP_SECS, Max2(MaxSleep, Latency))
        BY <1>1, <2>1, <3>2, <1>b DEF load, Unreadable, BackOff
      <4> QED
        BY <1>1, <2>1, <3>2, <4>1 DEF load, Unreadable, TypeOK
    <3> QED
      BY <3>1, <3>2
  <2>2. CASE disk["cert"] # Torn
    BY <1>1, <2>2 DEF load, TypeOK
  <2> QED
    BY <2>1, <2>2
<1>2. CASE cycle
  <2>1. CASE keys.key = Torn
    BY <1>2, <2>1, <1>b DEF cycle, Unreadable, TypeOK
  <2>2. CASE keys.key # Torn
    <3>1. PICK j \in 0..Jitter : due' = next_renewal(loaded, j)
      BY <1>2, <2>2 DEF cycle
    <3>2. due' \in Age
      BY <1>2, <3>1, NextRenewal DEF cycle, TypeOK
    <3>3. PICK s \in 0..Min2(Jitter, MaxSleep) :
              \/ pc' = "startup" /\ left' = s /\ first' = first
              \/ pc' = "wait" /\ left' = 0 /\ first' = FALSE
      BY <1>2, <2>2 DEF cycle
    <3>4. left' \in 0..Max2(CAP_SECS, Max2(MaxSleep, Latency))
      BY <3>3, <1>l DEF Min2, Max2
    <3> QED
      BY <1>2, <2>2, <3>2, <3>3, <3>4 DEF cycle, TypeOK
  <2> QED
    BY <2>1, <2>2
<1>3. CASE wait_until
  <2>1. left' \in 0..Max2(CAP_SECS, Max2(MaxSleep, Latency))
    BY <1>3, <1>l DEF wait_until, Nap, Min2, Max2, TypeOK
  <2> QED
    BY <1>3, <2>1 DEF wait_until, Nap, TypeOK
<1>4. CASE WakeElapsed
  BY <1>4 DEF WakeElapsed, TypeOK
<1>5. CASE WakeHangup
  <2>1. pc' \in {"request", "wait", "load"}
    BY <1>5 DEF WakeHangup
  <2>2. left' \in {Latency, 0}
    BY <1>5 DEF WakeHangup
  <2> QED
    <3>1. first' \in BOOLEAN /\ hup' \in BOOLEAN
      BY <1>5, Zenon DEF WakeHangup
    <3>2. UNCHANGED <<n, due, loaded, disk, term, renewed, faults, keys, other>>
      BY <1>5 DEF WakeHangup
    <3> QED
      BY <2>1, <2>2, <3>1, <3>2, <1>l DEF TypeOK
<1>6. CASE WakeStop
  BY <1>6 DEF WakeStop, TypeOK
<1>7. CASE RenewOk
  BY <1>7, <1>l DEF RenewOk, TypeOK
<1>8. CASE RenewTransient
  <2>1. pc' = "backoff" /\ n' \in 0..6 /\ left' \in 0..Max2(CAP_SECS, Max2(MaxSleep, Latency))
    BY <1>8, <1>b DEF RenewTransient, BackOff
  <2> QED
    <3>1. UNCHANGED <<first, due, loaded, disk, hup, term, renewed, faults, keys, other>>
      BY <1>8 DEF RenewTransient
    <3> QED
      BY <2>1, <3>1 DEF TypeOK
<1>9. CASE RenewRejected
  BY <1>9 DEF RenewRejected, TypeOK
<1>10. CASE LocalError
  BY <1>10 DEF LocalError, TypeOK
<1>11. CASE write_atomic
  BY <1>11 DEF write_atomic, TypeOK
<1>12. CASE Renamed
  BY <1>12, <1>l DEF Renamed, TypeOK
<1>13. CASE run_exec
  BY <1>13, <1>l DEF run_exec, TypeOK
<1>14. CASE rekey \/ certificate \/ post_json \/ Kill
  BY <1>14 DEF rekey, certificate, post_json, Kill, TypeOK
<1>15. CASE write_files
  BY <1>15 DEF write_files, TypeOK
<1>16. CASE Tick
  <2>1. left' \in 0..Max2(CAP_SECS, Max2(MaxSleep, Latency)) /\ due' \in 0..Life
    BY <1>16 DEF Tick, TypeOK, Max2
  <2>2. loaded' \in Age \cup {Torn} /\ disk' \in [Files -> Age \cup {Torn}]
    BY <1>16, OlderType DEF Tick, TypeOK
  <2> QED
    BY <1>16, <2>1, <2>2, OlderType DEF Tick, TypeOK
<1>17. CASE Hangup \/ Terminate
  <2>1. CASE Hangup
    BY <2>1 DEF Hangup, TypeOK
  <2>2. CASE Terminate
    BY <2>2 DEF Terminate, TypeOK
  <2> QED
    BY <1>17, <2>1, <2>2
<1>18. CASE Replace
  BY <1>18 DEF Replace, TypeOK
<1>19. CASE Crash
  <2>1. disk' \in [Files -> Age \cup {Torn}]
    BY <1>19 DEF Crash, TypeOK
  <2> QED
    <3>1. /\ pc' = "load" /\ first' = TRUE /\ n' = 0 /\ left' = 0 /\ due' = 0
          /\ hup' = FALSE /\ term' = FALSE /\ UNCHANGED <<loaded, renewed, faults, keys, other>>
      BY <1>19 DEF Crash
    <3> QED
      <4>1. first' \in BOOLEAN /\ hup' \in BOOLEAN /\ term' \in BOOLEAN
        BY <3>1, Zenon
      <4>2. left' \in 0..Max2(CAP_SECS, Max2(MaxSleep, Latency)) /\ due' \in 0..Life
        BY <3>1, <1>l
      <4> QED
        BY <2>1, <3>1, <4>1, <4>2 DEF TypeOK
<1>20. CASE UNCHANGED vars
  BY <1>20 DEF vars, keyVars, TypeOK
<1> QED
  BY <1>1, <1>2, <1>3, <1>4, <1>5, <1>6, <1>7, <1>8, <1>9, <1>10, <1>11, <1>12, <1>13, <1>14,
     <1>15, <1>16, <1>17, <1>18, <1>19, <1>20 DEF Next, Step, Command

\* The type holds from the start.
LEMMA InitType == Init => TypeOK /\ KeyAfterCert
<1> SUFFICES ASSUME Init PROVE TypeOK /\ KeyAfterCert
  OBVIOUS
<1>1. 0 \in 0..Max2(CAP_SECS, Max2(MaxSleep, Latency)) /\ 0 \in Age
  BY RenewLoopAssumption DEF Max2, Age
<1>2. first \in BOOLEAN /\ hup \in BOOLEAN /\ term \in BOOLEAN /\ renewed \in BOOLEAN
  BY Zenon DEF Init
<1> QED
  BY <1>1, <1>2 DEF Init, TypeOK, KeyAfterCert, Pcs, Sleeping

\* The loop's state keeps its type, and no sleep is longer than its cap (RenewLoop!TypeOK).
THEOREM TypeCorrect == Spec => []TypeOK
BY InitType, NextType, PTL DEF Spec

----------------------------------------------------------------------------
(* The key pair *)

\* Every step of the loop and of the other command keeps the books of the key pair.
LEMMA NextPairing == TypeOK /\ Pairing /\ [Next]_vars => Pairing'
<1> SUFFICES ASSUME TypeOK, Pairing, [Next]_vars PROVE Pairing'
  OBVIOUS
<1> USE DEF Pairing
<1>1. CASE load
  BY <1>1 DEF load, TypeOK
<1>2. CASE cycle
  BY <1>2 DEF cycle, TypeOK
<1>3. CASE Renamed
  BY <1>3 DEF Renamed, TypeOK
<1>4. CASE rekey \/ certificate \/ post_json \/ Kill
  BY <1>4 DEF rekey, certificate, post_json, Kill
<1>5. CASE write_files
  BY <1>5 DEF write_files, TypeOK
<1>6. CASE UNCHANGED keyVars
  BY <1>6 DEF keyVars
<1> QED
  BY <1>1, <1>2, <1>3, <1>4, <1>5, <1>6
  DEF Next, Step, Command, vars, wait_until, WakeElapsed, WakeHangup, WakeStop, RenewOk, RenewTransient,
      RenewRejected, LocalError, write_atomic, run_exec, Tick, Hangup, Terminate, Replace, Crash

\* Key file and certificate belong together except where PairKept says: a rekey or a
\* bootstrap that is refused, fails or is killed before its first write leaves the pair
\* as it was, and the loop mixes two pairs only over what the other command wrote
\* (rekey.rs, certificate.rs, renew.rs's write_atomic).
THEOREM PairsKept == Spec => []PairKept
<1>1. Init => TypeOK /\ KeyAfterCert /\ Pairing
  BY InitType DEF Init, Pairing
<1>2. TypeOK /\ Pairing => PairKept
  BY DEF TypeOK, Pairing, PairKept
<1> QED
  BY <1>1, <1>2, NextType, NextPairing, PTL DEF Spec

\* Without the other command nothing changes the pair.
LEMMA NextOneKey == TypeOK /\ OneKey /\ [Next]_vars => OneKey'
<1> SUFFICES ASSUME TypeOK, OneKey, [Next]_vars, faults \cap {"rekey", "bootstrap"} = {}
             PROVE  other' = "idle" /\ keys' = [key |-> 0, cert |-> 0, seen |-> 0, used |-> 0]
  BY SameFaults DEF OneKey
<1>0. other = "idle" /\ keys = [key |-> 0, cert |-> 0, seen |-> 0, used |-> 0]
  BY DEF OneKey
<1>1. CASE load \/ cycle \/ Renamed
  BY <1>0, <1>1 DEF load, cycle, Renamed
<1>2. CASE Command
  BY <1>0, <1>2 DEF Command, rekey, certificate, post_json, write_files, Kill
<1>3. CASE UNCHANGED keyVars
  BY <1>0, <1>3 DEF keyVars
<1> QED
  BY <1>1, <1>2, <1>3
  DEF Next, Step, vars, wait_until, WakeElapsed, WakeHangup, WakeStop, RenewOk, RenewTransient,
      RenewRejected, LocalError, write_atomic, run_exec, Tick, Hangup, Terminate, Replace, Crash

----------------------------------------------------------------------------
(* The file *)

\* Once renewed, the file is never truncated.
LEMMA NextWhole == TypeOK /\ OneKey /\ NeverTruncated /\ [Next]_vars => NeverTruncated'
<1> SUFFICES ASSUME TypeOK, OneKey, NeverTruncated, [Next]_vars, renewed',
                    faults \cap {"missing", "power", "rekey", "bootstrap"} = {}
             PROVE  disk'[Out] # Torn
  BY SameFaults DEF NeverTruncated, Out
<1>0. other = "idle" /\ Out \in Files /\ "cert" \in Files
  BY DEF OneKey, Out, Files
<1>w. renewed => disk[Out] # Torn
  BY DEF NeverTruncated
<1>1. CASE Renamed
  BY <1>0, <1>1 DEF Renamed, TypeOK, Torn
<1>2. CASE Tick
  BY <1>0, <1>2, <1>w, OlderType DEF Tick, TypeOK
<1>3. CASE Replace
  BY <1>0, <1>3, <1>w DEF Replace, TypeOK, Torn
<1>4. CASE Crash
  BY <1>4, <1>w DEF Crash
<1>5. CASE Command
  BY <1>0, <1>5, <1>w DEF Command, rekey, certificate, post_json, write_files, Kill
<1>6. CASE UNCHANGED <<disk, renewed>>
  BY <1>6, <1>w
<1> QED
  BY <1>1, <1>2, <1>3, <1>4, <1>5, <1>6
  DEF Next, Step, vars, load, cycle, wait_until, WakeElapsed, WakeHangup, WakeStop, RenewOk,
      RenewTransient, RenewRejected, LocalError, write_atomic, run_exec, Hangup, Terminate

\* The inductive invariant of the pair and of the file.
FileInv == TypeOK /\ KeyAfterCert /\ OneKey /\ NeverTruncated

\* The loop starts there: nothing has been renewed and there is one pair.
LEMMA InitFile == Init => FileInv
BY InitType DEF Init, FileInv, OneKey, NeverTruncated

\* Every step keeps it.
LEMMA NextFile == FileInv /\ [Next]_vars => FileInv'
BY NextType, NextOneKey, NextWhole DEF FileInv

\* A reader of the file never meets a truncated certificate once the loop has renewed
\* it, wherever the process fails or dies (renew.rs's write_atomic).
THEOREM FileNeverTruncated == Spec => []NeverTruncated
<1>1. FileInv => NeverTruncated
  BY DEF FileInv
<1> QED
  BY <1>1, InitFile, NextFile, PTL DEF Spec

----------------------------------------------------------------------------
(* The end of the loop *)

\* What ended the loop stays true of it: an expired certificate stays expired, and the
\* other command does not touch what the loop has read.
LEMMA NextFatal == TypeOK /\ FatalOnlyIfHopeless /\ [Next]_vars => FatalOnlyIfHopeless'
<1> SUFFICES ASSUME TypeOK, FatalOnlyIfHopeless, [Next]_vars,
                    faults \cap {"refuse", "io"} = {}, pc' = "failed"
             PROVE  \/ loaded' = Life \/ keys'.seen # keys'.used
                    \/ first' /\ Torn \in {loaded', keys'.used}
  BY SameFaults DEF FatalOnlyIfHopeless
<1>1. CASE load
  BY <1>1 DEF load, Unreadable, BackOff
<1>2. CASE cycle
  BY <1>2 DEF cycle, Unreadable, BackOff, TypeOK
<1>3. CASE RenewRejected
  BY <1>3 DEF RenewRejected, keyVars
<1>4. CASE pc = "failed" /\ Tick
  BY <1>4, OlderType DEF Tick, FatalOnlyIfHopeless, keyVars, TypeOK
<1>5. CASE pc = "failed" /\ UNCHANGED <<loaded, first>> /\ keys'.seen = keys.seen /\ keys'.used = keys.used
  BY <1>5 DEF FatalOnlyIfHopeless
<1>6. CASE Command
  <2>1. UNCHANGED <<pc, loaded, first>> /\ keys'.seen = keys.seen /\ keys'.used = keys.used
    BY <1>6 DEF Command, rekey, certificate, post_json, write_files, Kill, TypeOK
  <2> QED
    BY <2>1, <1>5
<1>7. CASE Step /\ ~load /\ ~cycle /\ ~RenewRejected
  <2>1. pc' # "failed"
    BY <1>7 DEF Step, wait_until, Nap, WakeElapsed, WakeHangup, WakeStop, RenewOk, RenewTransient, BackOff,
                LocalError, write_atomic, Renamed, run_exec, Sleeping
  <2> QED
    BY <2>1
<1>8. CASE Hangup \/ Terminate \/ Replace \/ UNCHANGED vars
  BY <1>8, <1>5 DEF Hangup, Terminate, Replace, vars, keyVars
<1>9. CASE Tick
  BY <1>4, <1>9 DEF Tick
<1>10. CASE Crash
  BY <1>10 DEF Crash
<1> QED
  BY <1>1, <1>2, <1>3, <1>6, <1>7, <1>8, <1>9, <1>10 DEF Next

\* The loop gives up by itself only when it holds an expired certificate or one for
\* another key, or could not read its files at the very start (renew.rs: cycle, renew,
\* is_transient).
THEOREM FatalMeansHopeless == Spec => []FatalOnlyIfHopeless
<1>1. Init => FatalOnlyIfHopeless
  BY DEF Init, FatalOnlyIfHopeless
<1> QED
  BY <1>1, InitType, NextType, NextFatal, PTL DEF Spec

----------------------------------------------------------------------------
(* Freshness *)

\* Every step keeps the places where no time passes and those of the first iteration.
LEMMA NextPlaces == TypeOK /\ Instant /\ Started /\ [Next]_vars => Instant' /\ Started'
<1> SUFFICES ASSUME TypeOK, Instant, Started, [Next]_vars PROVE Instant' /\ Started'
  OBVIOUS
<1> USE DEF Instant, Started, Sleeping
<1>1. CASE load
  BY <1>1 DEF load, Unreadable, BackOff
<1>2. CASE cycle
  BY <1>2 DEF cycle, Unreadable, BackOff
<1>3. CASE wait_until
  BY <1>3 DEF wait_until, Nap
<1>4. CASE WakeElapsed \/ WakeHangup \/ WakeStop
  BY <1>4 DEF WakeElapsed, WakeHangup, WakeStop
<1>5. CASE RenewOk \/ RenewTransient \/ RenewRejected
  BY <1>5 DEF RenewOk, RenewTransient, RenewRejected, BackOff
<1>6. CASE LocalError \/ write_atomic \/ Renamed \/ run_exec
  BY <1>6 DEF LocalError, write_atomic, Renamed, run_exec
<1>7. CASE Tick
  BY <1>7 DEF Tick
<1>8. CASE Crash
  BY <1>8 DEF Crash
<1>9. CASE UNCHANGED <<pc, first, left>>
  BY <1>9
<1> QED
  BY <1>1, <1>2, <1>3, <1>4, <1>5, <1>6, <1>7, <1>8, <1>9
  DEF Next, Step, Command, vars, rekey, certificate, post_json, write_files, Kill, Hangup, Terminate, Replace

\* Every step keeps the certificate within the age of its place.
LEMMA NextSteady ==
    FileInv /\ Instant /\ Started /\ Steady /\ [Next]_vars => Steady'
<1> SUFFICES ASSUME FileInv, Instant, Started, Steady, [Next]_vars,
                    RoomToRenew, faults \subseteq {"replace"}, renewed'
             PROVE  Steady'
  BY SameFaults DEF Steady
<1> USE RenewLoopAssumption DEF Sleeping
<1>0. /\ other = "idle" /\ keys.seen = keys.used /\ keys.key = 0
      /\ Out = "cert" /\ Files = {"cert"}
      /\ disk \in [{"cert"} -> Age \cup {Torn}] /\ loaded \in Age \cup {Torn}
      /\ left \in Nat /\ due \in Age
  <2>1. left \in Nat
    BY DEF FileInv, TypeOK, Max2
  <2> QED
    BY <2>1 DEF FileInv, OneKey, TypeOK, Out, Files
<1>m. Ceiling \in Nat /\ Latency <= Ceiling /\ Threshold <= Ceiling /\ Ceiling + Latency < Life
  BY DEF Ceiling, Max2, RoomToRenew
<1>1. CASE Renamed
  BY <1>0, <1>1 DEF Renamed, Steady, Started, Torn
<1> SUFFICES ASSUME ~Renamed PROVE Steady'
  BY <1>1
<1>r. renewed
  BY DEF Next, Step, Command, vars, load, cycle, wait_until, WakeElapsed, WakeHangup, WakeStop, RenewOk,
         RenewTransient, RenewRejected, LocalError, write_atomic, run_exec, rekey, certificate,
         post_json, write_files, Kill, Tick, Hangup, Terminate, Replace, Crash
<1>s. Steady!2
  BY <1>r DEF Steady
<1>2. CASE load
  <2>1. pc' = "load_key" /\ loaded' = disk["cert"] /\ UNCHANGED <<first, left, due, disk>>
    BY <1>s, <1>2 DEF load
  <2>2. disk["cert"] \in Age /\ disk["cert"] <= Latency
    BY <1>0, <1>s, <1>2 DEF load
  <2> QED
    BY <1>s, <2>1, <2>2 DEF Steady, Age
<1>3. CASE cycle
  <2>1. PICK j \in 0..Jitter : due' = next_renewal(loaded, j)
    BY <1>0, <1>3 DEF cycle, Torn
  <2>2. due' \in Age /\ loaded + due' <= Ceiling
    <3>1. loaded \in Age /\ loaded <= Latency
      BY <1>0, <1>s, <1>3 DEF cycle
    <3> QED
      BY <2>1, <3>1, NextRenewal
  <2>3. pc' = "wait" /\ left' = 0 /\ first' = FALSE /\ UNCHANGED <<loaded, disk>>
    BY <1>0, <1>s, <1>3 DEF cycle, Torn
  <2> QED
    BY <1>s, <1>3, <2>2, <2>3 DEF cycle, Steady
<1>4. CASE wait_until
  <2>1. UNCHANGED <<first, due, loaded, disk>> /\ loaded \in Age /\ loaded + due <= Ceiling
    BY <1>0, <1>s, <1>4 DEF wait_until
  <2>2. \/ due = 0 /\ pc' = "request" /\ left' = Latency
        \/ pc' = "nap" /\ left' <= due
    BY <1>0, <1>4 DEF wait_until, Nap, Min2, Age
  <2> QED
    BY <1>0, <1>m, <1>s, <1>4, <2>1, <2>2 DEF wait_until, Steady, Age
<1>5. CASE WakeElapsed
  BY <1>0, <1>s, <1>5 DEF WakeElapsed, Steady
<1>6. CASE WakeHangup
  <2>1. pc = "nap" /\ pc' = "request" /\ left' = Latency
    BY <1>s, <1>6 DEF WakeHangup
  <2>2. first' = FALSE /\ UNCHANGED <<due, loaded, disk>>
    BY <1>s, <1>6 DEF WakeHangup
  <2> QED
    BY <1>0, <1>m, <1>s, <2>1, <2>2 DEF Steady, Age
<1>7. CASE WakeStop
  BY <1>0, <1>m, <1>s, <1>7 DEF WakeStop, Steady, Age
<1>8. CASE RenewOk
  BY <1>0, <1>m, <1>s, <1>8 DEF RenewOk, Steady, Age
<1>9. CASE RenewTransient \/ LocalError
  BY <1>9 DEF RenewTransient, LocalError
<1>10. CASE RenewRejected
  BY <1>0, <1>m, <1>s, <1>10 DEF RenewRejected, Age
<1>11. CASE write_atomic
  BY <1>0, <1>s, <1>11 DEF write_atomic, Steady
<1>12. CASE run_exec
  BY <1>0, <1>s, <1>12 DEF run_exec, Steady, Age
<1>13. CASE Command
  BY <1>0, <1>13 DEF Command, rekey, certificate, post_json, write_files, Kill
<1>14. CASE Tick
  <2>1. left' = left - 1 /\ left > 0 /\ due' = Max2(0, due - 1) /\ UNCHANGED <<pc, first>>
    BY <1>14 DEF Tick
  <2>2. /\ disk["cert"] \in Age /\ disk'["cert"] \in Age
        /\ disk'["cert"] <= disk["cert"] + 1
    BY <1>0, <1>s, <1>14, OlderType DEF Tick, Torn, Age
  <2>3. pc \in {"nap", "request", "exec", "stopped"}
    BY <1>0, <1>s, <2>1 DEF Instant, FileInv, TypeOK, Pcs
  <2>4. loaded # Torn => /\ loaded \in Age /\ loaded' \in Age /\ loaded' <= loaded + 1
                         /\ disk["cert"] <= loaded => disk'["cert"] <= loaded'
    BY <1>0, <1>s, <1>14, <2>2 DEF Tick, Older, Min2, Age, Torn
  <2>5. Torn \notin Age
    BY DEF Torn, Age
  <2>6. CASE pc = "nap"
    BY <1>0, <1>m, <1>s, <2>1, <2>2, <2>4, <2>5, <2>6 DEF Steady, Max2, Age
  <2>7. CASE pc \in {"request", "exec", "stopped"}
    BY <1>0, <1>m, <1>s, <2>1, <2>2, <2>4, <2>5, <2>7 DEF Steady, Age
  <2> QED
    BY <2>3, <2>6, <2>7
<1>15. CASE Hangup \/ Terminate
  BY <1>s, <1>15 DEF Hangup, Terminate, Steady
<1>16. CASE Replace
  <2>1. disk' = [disk EXCEPT !["cert"] = 0] /\ UNCHANGED <<pc, first, left, due, loaded>>
    BY <1>16 DEF Replace
  <2> QED
    BY <1>0, <1>m, <1>s, <2>1 DEF Steady, Age, Torn
<1>17. CASE Crash
  BY <1>17 DEF Crash
<1>18. CASE UNCHANGED vars
  BY <1>s, <1>18 DEF vars, Steady
<1> QED
  BY <1>2, <1>3, <1>4, <1>5, <1>6, <1>7, <1>8, <1>9, <1>10, <1>11, <1>12, <1>13, <1>14, <1>15, <1>16,
     <1>17, <1>18 DEF Next, Step

\* The inductive invariant of the schedule.
FreshInv == FileInv /\ Instant /\ Started /\ Steady

\* With a CA that answers and a threshold that leaves room for the request, the
\* certificate in the file never expires once the loop has renewed it (next_renewal,
\* wait_until): for every jitter, every cap on the naps and every run of signals and
\* replacements.
THEOREM FileKeptFresh == Spec => []KeepsFresh
<1>1. Init => FreshInv
  BY InitFile DEF Init, FreshInv, Instant, Started, Steady
<1>2. FreshInv /\ [Next]_vars => FreshInv'
  BY NextFile, NextPlaces, NextSteady DEF FreshInv, FileInv
<1>3. FreshInv => KeepsFresh
  <2> SUFFICES ASSUME FreshInv, RoomToRenew, faults \subseteq {"replace"}, renewed
               PROVE  disk[Out] \in 0..(Life - 1)
    BY DEF KeepsFresh
  <2>1. Out = "cert" /\ disk["cert"] \in Age \cup {Torn} /\ loaded \in Age \cup {Torn} /\ due \in Age
    BY DEF FreshInv, FileInv, TypeOK, Out, Files
  <2>2. left \in Nat
    BY RenewLoopAssumption DEF FreshInv, FileInv, TypeOK, Max2
  <2>3. Ceiling \in Nat /\ Latency <= Ceiling /\ Ceiling + Latency < Life
    BY RenewLoopAssumption DEF Ceiling, Max2, RoomToRenew
  <2>4. Steady!2 /\ pc \in Pcs
    BY DEF FreshInv, FileInv, TypeOK, Steady
  <2> QED
    BY RenewLoopAssumption, <2>1, <2>2, <2>3, <2>4 DEF Pcs, Sleeping, Age, Torn
<1> QED
  BY <1>1, <1>2, <1>3, PTL DEF Spec

==============================================================================
