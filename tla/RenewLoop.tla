------------------------------ MODULE RenewLoop ------------------------------
(***************************************************************************)
(* `ayane renew --loop` (ayane-cli/src/cmd/renew.rs): one process that     *)
(* keeps the certificate in a file fresh, with the signals, the file       *)
(* replacements, the CA failures and the crashes around it, and with       *)
(* another command (`ayane rekey`, or `ayane certificate`) that replaces   *)
(* the key and the certificate in place while the loop runs.               *)
(*                                                                         *)
(* All times are relative: a certificate is its age since notBefore (every *)
(* certificate of the file lives Life seconds, a renewal keeps the         *)
(* duration), a sleep is the time left.  The states are finite and the     *)
(* behaviours are not.                                                     *)
(***************************************************************************)
EXTENDS Integers

CONSTANTS
    Life,         \* notAfter - notBefore
    Threshold,    \* renewal time before jitter, after notBefore: fraction * Life,
                  \* or Life minus --renew-before (negative when that is longer)
    Jitter,       \* --jitter
    MaxSleep,     \* --max-sleep
    BASE_SECS, CAP_SECS,   \* backoff
    Latency,      \* bound on the time a request or the exec hook takes
    Scenarios     \* sets of what may be different: --out elsewhere, or the environment

ASSUME RenewLoopAssumption ==
    /\ Life \in Nat \ {0}
    /\ Threshold \in Int /\ Threshold <= Life   \* the fraction is below 1
    /\ Jitter \in Nat /\ MaxSleep \in Nat \ {0}
    /\ BASE_SECS \in Nat /\ CAP_SECS \in Nat /\ Latency \in Nat
    /\ \A f \in Scenarios :
          /\ f \subseteq {"elsewhere", "transient", "refuse", "replace", "missing", "crash", "power",
                           "io", "rekey", "bootstrap"}
          /\ "elsewhere" \notin f \/ f \cap {"rekey", "bootstrap"} = {}

VARIABLES
    pc,       \* where the loop is
    first,    \* the first iteration has not got to its wait yet
    n,        \* consecutive transient failures
    left,     \* time left of the sleep, or that the request or the hook may take
    due,      \* time left until renew_at
    loaded,   \* age of the certificate this iteration has read
    disk,     \* path -> age of the certificate in the file, or Torn
    hup, term,   \* signals delivered and not yet received
    renewed,  \* history: a renewal has reached the file
    faults,   \* what may go wrong in this behaviour
    keys,     \* the key pair, 0 or 1, of the key file, of the certificate in the file,
              \* of the certificate this iteration has read and of the key it has read
    other     \* where the other command is

keyVars == <<keys, other>>
vars == <<pc, first, n, left, due, loaded, disk, hup, term, renewed, faults, keyVars>>

Torn == -1    \* absent, unreadable or truncated
Age == 0..Life
\* --out, by default --cert.
Out == IF "elsewhere" \in faults THEN "out" ELSE "cert"
Files == {"cert", Out}

\* The schedule leaves room for the request, and for the exec hook before it.
RoomToRenew == Threshold + Latency < Life /\ 2 * Latency < Life

Sleeping == {"startup", "nap", "backoff"}
Pcs == Sleeping \cup {"load", "load_key", "wait", "request", "write", "rename", "exec", "stopped", "failed"}

Min2(a, b) == IF a <= b THEN a ELSE b
Max2(a, b) == IF a >= b THEN a ELSE b

Init ==
    /\ pc = "load" /\ first = TRUE /\ n = 0 /\ left = 0 /\ due = 0
    /\ loaded = 0
    /\ faults \in Scenarios
    /\ disk \in [Files -> Age \cup {Torn}]
    /\ hup = FALSE /\ term = FALSE
    /\ renewed = FALSE
    /\ keys = [key |-> 0, cert |-> 0, seen |-> 0, used |-> 0]
    /\ other = "idle"

----------------------------------------------------------------------------
(* One iteration *)

\* Mutant of next_renewal: the jitter is added.
next_renewal_Late(age, j) == Max2(0, Max2(0, Threshold + j) - age)

\* Time left until renew_at for a certificate of this age: never before notBefore.
next_renewal(age, j) == Max2(0, Max2(0, Threshold - j) - age)

backoff_ceiling(k) == Min2(BASE_SECS * 2^Min2(k, 5), CAP_SECS)

\* Any delay up to the ceiling, and one failure more on the counter.
BackOff ==
    /\ pc' = "backoff"
    /\ \E d \in 0..backoff_ceiling(n) : left' = d
    /\ n' = Min2(n + 1, 6)

\* A nap of at most MaxSleep.
Nap(d) == pc' = "nap" /\ left' = Min2(d, MaxSleep)

\* An unreadable file ends the loop on its first iteration, later it is waited for.
Unreadable ==
    /\ IF first THEN pc' = "failed" /\ UNCHANGED <<n, left>> ELSE BackOff
    /\ UNCHANGED <<first, due>>

\* load reads the certificate ...
load ==
    /\ pc = "load"
    /\ loaded' = disk["cert"]
    /\ keys' = [keys EXCEPT !.seen = keys.cert]
    /\ \/ disk["cert"] = Torn /\ Unreadable
       \/ disk["cert"] # Torn /\ pc' = "load_key" /\ UNCHANGED <<first, n, left, due>>
    /\ UNCHANGED <<disk, hup, term, renewed, faults, other>>

\* ... and then the key; cycle draws the jitter and, on the first iteration, when
\* already due, spreads the start.
cycle ==
    /\ pc = "load_key"
    /\ keys' = [keys EXCEPT !.used = keys.key]
    /\ \/ keys.key = Torn /\ Unreadable
       \/ /\ keys.key # Torn
          /\ \E j \in 0..Jitter : due' = next_renewal(loaded, j)
          /\ \E s \in 0..Min2(Jitter, MaxSleep) :
                IF first /\ due' = 0 /\ s > 0
                THEN pc' = "startup" /\ left' = s /\ UNCHANGED first
                ELSE pc' = "wait" /\ left' = 0 /\ first' = FALSE
          /\ UNCHANGED n
    /\ UNCHANGED <<loaded, disk, hup, term, renewed, faults, other>>

\* wait_until: the schedule is compared with the clock, the files are not read again.
wait_until ==
    /\ pc = "wait"
    /\ IF due = 0 THEN pc' = "request" /\ left' = Latency ELSE Nap(due)
    /\ UNCHANGED <<first, n, due, loaded, disk, hup, term, renewed, faults, keyVars>>

\* The timer of a sleep ran out.
WakeElapsed ==
    /\ pc \in Sleeping
    /\ left = 0
    /\ pc' = IF pc = "backoff" THEN "load" ELSE "wait"
    /\ first' = (first /\ pc # "startup")
    /\ UNCHANGED <<n, left, due, loaded, disk, hup, term, renewed, faults, keyVars>>

\* SIGHUP: renew now, or start over from a backoff.
WakeHangup ==
    /\ pc \in Sleeping
    /\ hup
    /\ hup' = FALSE
    /\ pc' = CASE pc = "nap" -> "request" [] pc = "startup" -> "wait" [] pc = "backoff" -> "load"
    /\ left' = IF pc = "nap" THEN Latency ELSE 0
    /\ first' = (first /\ pc # "startup")
    /\ UNCHANGED <<n, due, loaded, disk, term, renewed, faults, keyVars>>

\* Mutant of WakeStop: the backoff swallows the stop signal.
WakeStop_NotInBackoff ==
    /\ pc \in Sleeping
    /\ term
    /\ pc' = IF pc = "backoff" THEN "load" ELSE "stopped"
    /\ UNCHANGED <<first, n, left, due, loaded, disk, hup, renewed, faults, keyVars>>
    /\ term' = FALSE

\* SIGTERM or SIGINT end a sleep and the loop.
WakeStop ==
    /\ pc \in Sleeping
    /\ term
    /\ pc' = "stopped"
    /\ UNCHANGED <<first, n, left, due, loaded, disk, hup, term, renewed, faults, keyVars>>

\* The CA reissues a certificate that has not expired, on the proof of its own key.
RenewOk ==
    /\ pc = "request"
    /\ loaded < Life
    /\ keys.seen = keys.used
    /\ pc' = "write"
    /\ left' = 0
    /\ UNCHANGED <<first, n, due, loaded, disk, hup, term, renewed, faults, keyVars>>

\* Mutant of RenewTransient: every failure is final.
RenewTransient_Fatal ==
    /\ pc = "request"
    /\ "transient" \in faults
    /\ pc' = "failed"
    /\ UNCHANGED <<first, n, left, due, loaded, disk, hup, term, renewed, faults, keyVars>>

\* Transport error, 5xx or 429.
RenewTransient ==
    /\ pc = "request"
    /\ "transient" \in faults
    /\ BackOff
    /\ UNCHANGED <<first, due, loaded, disk, hup, term, renewed, faults, keyVars>>

\* Any other status: expired, proved with another key, or (revoked, denied) refused.
RenewRejected ==
    /\ pc = "request"
    /\ loaded = Life \/ keys.seen # keys.used \/ "refuse" \in faults
    /\ pc' = "failed"
    /\ UNCHANGED <<first, n, left, due, loaded, disk, hup, term, renewed, faults, keyVars>>

\* The DPoP proof cannot be built, or the new file cannot be written: fatal.
LocalError ==
    /\ pc \in {"request", "write", "rename"}
    /\ "io" \in faults
    /\ pc' = "failed"
    /\ UNCHANGED <<first, n, left, due, loaded, disk, hup, term, renewed, faults, keyVars>>

\* Mutant of write_atomic: the file itself is truncated and written.
write_atomic_InPlace ==
    /\ pc = "write"
    /\ pc' = "rename"
    /\ disk' = [disk EXCEPT ![Out] = Torn]
    /\ UNCHANGED <<first, n, left, due, loaded, hup, term, renewed, faults, keyVars>>

\* write_atomic up to its rename: the new certificate is in a sibling file.
write_atomic ==
    /\ pc = "write"
    /\ pc' = "rename"
    /\ UNCHANGED <<first, n, left, due, loaded, disk, hup, term, renewed, faults, keyVars>>

\* The rename, the reset of the backoff and the start of the exec hook.  The new
\* certificate is for the key of the one presented.  It takes the place of whatever the
\* other command has put there, or is still writing to.
Renamed ==
    /\ pc = "rename"
    /\ disk' = [disk EXCEPT ![Out] = 0]
    /\ keys' = [keys EXCEPT !.cert = keys.seen]
    /\ other' = IF other \in {"cert", "done"} /\ keys.seen # keys.key THEN "overwritten" ELSE other
    /\ pc' = "exec"
    /\ left' = Latency
    /\ n' = 0
    /\ renewed' = TRUE
    /\ UNCHANGED <<first, due, loaded, hup, term, faults>>

\* The hook ended, well or not.
run_exec ==
    /\ pc = "exec"
    /\ pc' = "load"
    /\ left' = 0
    /\ UNCHANGED <<first, n, due, loaded, disk, hup, term, renewed, faults, keyVars>>

----------------------------------------------------------------------------
(* The other command, with --key-out and --out on the loop's files *)

\* Mutant of rekey: the new key is saved before the CA has answered.
rekey_KeyFirst ==
    /\ other = "idle"
    /\ "rekey" \in faults
    /\ disk["cert"] \in 0..(Life - 1) /\ keys.key = keys.cert
    /\ other' = "asked"
    /\ keys' = [keys EXCEPT !.key = 1]
    /\ UNCHANGED <<pc, first, n, left, due, loaded, disk, hup, term, renewed, faults>>

\* rekey asks with the pair in the files; the new key stays in memory.
rekey ==
    /\ other = "idle"
    /\ "rekey" \in faults
    /\ disk["cert"] \in 0..(Life - 1) /\ keys.key = keys.cert
    /\ other' = "asked"
    /\ UNCHANGED <<pc, first, n, left, due, loaded, disk, hup, term, renewed, faults, keys>>

\* certificate asks with a token, whatever is in the files.
certificate ==
    /\ other = "idle"
    /\ "bootstrap" \in faults
    /\ other' = "asked"
    /\ UNCHANGED <<pc, first, n, left, due, loaded, disk, hup, term, renewed, faults, keys>>

\* The answer, or an error that ends the command.
post_json ==
    /\ other = "asked"
    /\ other' \in {"issued", "idle"}
    /\ UNCHANGED <<pc, first, n, left, due, loaded, disk, hup, term, renewed, faults, keys>>

\* std::fs::write of the key and then of the certificate: each file is truncated first.
write_files ==
    /\ \/ other = "issued" /\ other' = "key"
          /\ keys' = [keys EXCEPT !.key = Torn] /\ UNCHANGED disk
       \/ other = "key" /\ other' = "keyed"
          /\ keys' = [keys EXCEPT !.key = 1] /\ UNCHANGED disk
       \/ other = "keyed" /\ other' = "cert"
          /\ disk' = [disk EXCEPT !["cert"] = Torn] /\ UNCHANGED keys
       \/ other = "cert" /\ other' = "done"
          /\ keys' = [keys EXCEPT !.cert = 1]
          /\ \E a \in 0..(Life - 1) : disk' = [disk EXCEPT !["cert"] = a]
    /\ UNCHANGED <<pc, first, n, left, due, loaded, hup, term, renewed, faults>>

\* The command is killed.
Kill ==
    /\ other \in {"asked", "issued", "key", "keyed", "cert"}
    /\ other' = "killed"
    /\ UNCHANGED <<pc, first, n, left, due, loaded, disk, hup, term, renewed, faults, keys>>

Command == rekey \/ certificate \/ post_json \/ write_files \/ Kill

----------------------------------------------------------------------------
(* Environment *)

Older(a) == IF a = Torn THEN Torn ELSE Min2(a + 1, Life)

\* A second passes while the loop sleeps undisturbed or waits for an answer.
Tick ==
    /\ left > 0
    /\ pc \in Sleeping => ~hup /\ ~term
    /\ left' = left - 1
    /\ due' = Max2(0, due - 1)
    /\ loaded' = Older(loaded)
    /\ disk' = [p \in Files |-> Older(disk[p])]
    /\ UNCHANGED <<pc, first, n, hup, term, renewed, faults, keyVars>>

Hangup == pc \notin {"stopped", "failed"} /\ hup' = TRUE
          /\ UNCHANGED <<pc, first, n, left, due, loaded, disk, term, renewed, faults, keyVars>>
Terminate == pc \notin {"stopped", "failed"} /\ term' = TRUE
             /\ UNCHANGED <<pc, first, n, left, due, loaded, disk, hup, renewed, faults, keyVars>>

\* Somebody else installs a new certificate, or takes the file away.
Replace ==
    /\ \/ "replace" \in faults /\ disk' = [disk EXCEPT !["cert"] = 0]
       \/ "missing" \in faults /\ disk' = [disk EXCEPT !["cert"] = Torn]
    /\ UNCHANGED <<pc, first, n, left, due, loaded, hup, term, renewed, faults, keyVars>>

\* The process dies and its supervisor starts another; in a power loss a rename whose
\* file was never synced may survive without the contents.
Crash ==
    /\ pc # "stopped"
    /\ \/ "crash" \in faults /\ UNCHANGED disk
       \/ "power" \in faults /\ pc = "exec" /\ disk' = [disk EXCEPT ![Out] = Torn]
    /\ pc' = "load" /\ first' = TRUE /\ n' = 0 /\ left' = 0 /\ due' = 0
    /\ hup' = FALSE /\ term' = FALSE
    /\ UNCHANGED <<loaded, renewed, faults, keyVars>>

Step ==
    \/ load \/ cycle \/ wait_until \/ WakeElapsed \/ WakeHangup \/ WakeStop
    \/ RenewOk \/ RenewTransient \/ RenewRejected
    \/ LocalError \/ write_atomic \/ Renamed \/ run_exec

Next == Step \/ Command \/ Tick \/ Hangup \/ Terminate \/ Replace \/ Crash

Spec == Init /\ [][Next]_vars

\* The process runs, time passes whatever it does, requests end, and the random choice of
\* select! among what is ready does not avoid the stop signal for ever.
FairSpec == Spec /\ WF_vars(Step) /\ SF_vars(Tick) /\ SF_vars(WakeStop)

----------------------------------------------------------------------------
(* Properties *)

\* The type of the loop's state; no sleep is longer than its cap.
TypeOK ==
    /\ pc \in Pcs
    /\ first \in BOOLEAN /\ hup \in BOOLEAN /\ term \in BOOLEAN /\ renewed \in BOOLEAN
    /\ n \in 0..6
    /\ left \in 0..Max2(CAP_SECS, Max2(MaxSleep, Latency)) /\ due \in Age
    /\ loaded \in Age \cup {Torn}
    /\ keys \in [key : {0, 1, Torn}, cert : {0, 1}, seen : {0, 1}, used : {0, 1, Torn}]
    /\ other \in {"idle", "asked", "issued", "key", "keyed", "cert", "done", "killed", "overwritten"}
    /\ disk \in [Files -> Age \cup {Torn}]

\* With a CA that answers and a threshold that leaves room for the request, the
\* certificate in the file never expires once the loop has renewed it (next_renewal,
\* wait_until: whatever the jitter, the capped naps, the signals and the replacements).
KeepsFresh ==
    RoomToRenew /\ faults \subseteq {"replace"} /\ renewed => disk[Out] \in 0..(Life - 1)

\* The loop gives up by itself only when the certificate it presents has expired or is
\* for another key than the one it read, or when its very first read failed; transient
\* failures and files that are missing for a while never end it (cycle, renew,
\* is_transient).
FatalOnlyIfHopeless ==
    faults \cap {"refuse", "io"} = {} /\ pc = "failed" =>
        loaded = Life \/ keys.seen # keys.used \/ (first /\ Torn \in {loaded, keys.used})

\* A reader of the file, or a restart, never meets a truncated certificate, wherever
\* the process fails or dies (write_atomic; a power loss is another matter, and so are
\* the commands that write in place).
NeverTruncated ==
    faults \cap {"missing", "power", "rekey", "bootstrap"} = {} /\ renewed => disk[Out] # Torn

\* Key file and certificate belong together, unless the other command is between its
\* two writes or was killed there, or the loop has written a renewal of the pair it had
\* read before.  A refused or failed rekey leaves the old pair as it was (rekey.rs,
\* certificate.rs: the files are written after the answer).
PairKept ==
    keys.key # keys.cert => other \in {"key", "keyed", "cert", "killed", "overwritten"}

\* SIGTERM stops the loop, unless the process dies of something else first.
TermStops == term /\ "crash" \notin faults ~> pc \in {"stopped", "failed"}

\* After a nap of at most --max-sleep the certificate is read again: what the loop
\* presents is what the file has held for that long.
ReadsWithinMaxSleep ==
    pc = "request" /\ loaded # disk["cert"] => disk["cert"] <= MaxSleep + Latency
==============================================================================
