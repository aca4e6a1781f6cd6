------------------------------ MODULE ServingTls ------------------------------
(***************************************************************************)
(* The standalone server's own TLS certificate (ayane/src/tls.rs): issued  *)
(* from the CA before the listener opens (serve_tls), reissued before it   *)
(* expires by a background task (run_renewer) and swapped under the live   *)
(* listener, while the CA key may be slow or down for a while.             *)
(*                                                                         *)
(* Times are relative: the served certificate is the time it has left.     *)
(***************************************************************************)
EXTENDS Integers

CONSTANTS
    Validity,      \* server.tls.validity
    RenewBefore,   \* server.tls.renew_before
    RenewJitter,   \* server.tls.renew_jitter
    RETRY_CAP,     \* upper bound of the pause after a failure
    Latency,       \* bound on the time the CA key takes to sign or to fail
    MaxOutage      \* how long the CA key may be down at a stretch

ASSUME ServingTlsAssumption ==
    /\ Validity \in Nat /\ RenewBefore \in Nat /\ RenewJitter \in Nat
    /\ RETRY_CAP \in Nat /\ Latency \in Nat /\ MaxOutage \in Nat
    /\ RenewBefore < Validity       \* TlsConfig::validate
    /\ Latency <= Validity

VARIABLES
    pc,       \* "start", "plan", "sleep", "issue", "backoff" or "refused"
    served,   \* time left of the certificate in the resolver; 0 once it has expired
    left,     \* time left of the sleep
    asked,    \* time since issue_serving read the clock
    ca,       \* the CA key: "up", "down", or "back" from the outage of this renewal
    outage    \* how long it has been down since the last success

vars == <<pc, served, left, asked, ca, outage>>
key == <<ca, outage>>

Pcs == {"start", "plan", "sleep", "issue", "backoff", "refused"}

Monus(a, b) == IF a >= b THEN a - b ELSE 0

Init ==
    /\ pc = "start" /\ served = 0 /\ left = 0 /\ asked = 0
    /\ ca = "up" /\ outage = 0

----------------------------------------------------------------------------
(* Issue and renew *)

\* serve_tls: no listener without a first certificate.
Boot ==
    /\ pc = "start"
    /\ \/ /\ ca # "down"
          /\ pc' = "plan" /\ served' = Validity - asked
          /\ ca' = "up" /\ outage' = 0
       \/ ca = "down" /\ pc' = "refused" /\ UNCHANGED <<served, key>>
    /\ asked' = 0
    /\ UNCHANGED left

\* Mutant of renew_delay: the jitter postpones the renewal.
renew_delay_Late(j) == Monus(served + j, RenewBefore)

renew_delay(j) == Monus(served, RenewBefore + j)

Plan ==
    /\ pc = "plan"
    /\ pc' = "sleep"
    /\ \E j \in 0..RenewJitter : left' = renew_delay(j)
    /\ UNCHANGED <<served, asked, key>>

WakeUp ==
    /\ pc \in {"sleep", "backoff"}
    /\ left = 0
    /\ pc' = IF pc = "sleep" THEN "issue" ELSE "plan"
    /\ UNCHANGED <<served, left, asked, key>>

\* notAfter counts from the clock that issue_serving read before it asked the key.
issue_serving ==
    /\ pc = "issue"
    /\ ca # "down"
    /\ served' = Validity - asked
    /\ asked' = 0
    /\ pc' = "plan"
    /\ ca' = "up" /\ outage' = 0
    /\ UNCHANGED left

\* The pause after a failure.
Backoff == IF RenewBefore <= RETRY_CAP THEN RenewBefore ELSE RETRY_CAP

\* Mutant of RenewalFails: the task ends with its first failure.
RenewalFails_Ends ==
    /\ pc = "issue"
    /\ ca = "down"
    /\ pc' = "refused"
    /\ asked' = 0
    /\ UNCHANGED <<served, left, key>>

\* The old certificate stays; the task pauses and plans again.
RenewalFails ==
    /\ pc = "issue"
    /\ ca = "down"
    /\ pc' = "backoff"
    /\ left' = Backoff
    /\ asked' = 0
    /\ UNCHANGED <<served, key>>

----------------------------------------------------------------------------
(* Environment *)

\* The CA key goes down, at most once between two certificates, and comes back.
KeyDown ==
    /\ ca = "up"
    /\ ca' = "down"
    /\ UNCHANGED <<pc, served, left, asked, outage>>

KeyBack ==
    /\ ca = "down"
    /\ ca' = "back"
    /\ UNCHANGED <<pc, served, left, asked, outage>>

Waiting == pc \in {"sleep", "backoff"} /\ left > 0
Asking == pc \in {"start", "issue"} /\ asked < Latency

\* A second passes while the task sleeps or the key is at work.
Tick ==
    /\ Waiting \/ Asking
    /\ ca = "down" => outage < MaxOutage
    /\ left' = Monus(left, 1)
    /\ asked' = IF pc \in {"start", "issue"} THEN asked + 1 ELSE 0
    /\ served' = Monus(served, 1)
    /\ outage' = IF ca = "down" THEN outage + 1 ELSE outage
    /\ UNCHANGED <<pc, ca>>

Work == Boot \/ Plan \/ WakeUp \/ issue_serving \/ RenewalFails

Next == Work \/ KeyDown \/ KeyBack \/ Tick

Spec == Init /\ [][Next]_vars

\* The task runs, time passes, and an outage ends.
FairSpec == Spec /\ WF_vars(Work) /\ WF_vars(Tick) /\ WF_vars(KeyBack)

----------------------------------------------------------------------------
(* Properties *)

\* The type of the renewer's state.
TypeOK ==
    /\ pc \in Pcs
    /\ served \in 0..Validity
    /\ left \in 0..Validity /\ asked \in 0..Latency
    /\ ca \in {"up", "down", "back"} /\ outage \in 0..MaxOutage

\* The renewal window covers an outage, the pause after a failure and two signatures.
Covered ==
    /\ RenewBefore > MaxOutage + Backoff + 2 * Latency
    /\ Validity >= RenewBefore + Latency

\* The listener never presents an expired certificate, through an outage of the CA
\* key that the renewal window covers: run_renewer starts early enough, retries often
\* enough, and keeps the old certificate meanwhile.
NeverExpired == Covered /\ pc \notin {"start", "refused"} => served > 0

\* The renewer never gives up: whatever failed, a later attempt is made and the
\* listener gets a certificate with its renewal window still ahead.
Renewed == (pc = "issue") ~> (pc = "sleep" /\ served > RenewBefore)
==============================================================================
