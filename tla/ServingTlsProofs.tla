--------------------------- MODULE ServingTlsProofs ---------------------------
(***************************************************************************)
(* The served certificate never expires, for every validity, window,       *)
(* jitter, latency and outage that satisfy Covered.                        *)
(*                                                                         *)
(* The invariant bounds from below what the certificate has left by what   *)
(* the rest of the renewal may still cost: the whole window before an      *)
(* outage; in one, the window less a signature and the outage so far;      *)
(* after it, less a pause as well.                                         *)
(***************************************************************************)
EXTENDS ServingTls, TLAPS

Reserve ==
    IF ca = "down" THEN RenewBefore - Latency - outage
    ELSE IF ca = "back" THEN RenewBefore - Latency - outage - Backoff
    ELSE RenewBefore

\* What the certificate has left covers the rest of the renewal, at every place of
\* the task.
Ahead ==
    /\ pc = "plan" => served >= Reserve
    /\ pc = "sleep" => served - left >= Reserve
    /\ pc = "issue" => served >= IF ca = "down" THEN Reserve ELSE Reserve - asked
    /\ pc = "backoff" => IF ca = "down" THEN served >= Reserve ELSE ca = "back" /\ served - left >= Reserve
    /\ pc = "backoff" => left <= Backoff

\* The inductive invariant.
IInv == TypeOK /\ (Covered => Ahead)

\* The pause is no longer than the window (run_renewer's min).
LEMMA BackoffBound == Backoff \in Nat /\ Backoff <= RenewBefore
BY ServingTlsAssumption DEF Backoff

\* The type invariant is inductive by itself.
LEMMA TypeStep == TypeOK /\ [Next]_vars => TypeOK'
<1> SUFFICES ASSUME TypeOK, [Next]_vars PROVE TypeOK'
  OBVIOUS
<1> USE ServingTlsAssumption, BackoffBound DEF TypeOK, Pcs, key
<1>1. CASE Boot
  BY <1>1 DEF Boot
<1>2. CASE Plan
  <2>1. PICK j \in 0..RenewJitter : left' = renew_delay(j)
    BY <1>2 DEF Plan
  <2>2. left' \in 0..Validity
    BY <2>1 DEF Monus, renew_delay
  <2> QED
    BY <1>2, <2>2 DEF Plan
<1>3. CASE WakeUp
  BY <1>3 DEF WakeUp
<1>4. CASE issue_serving
  BY <1>4 DEF issue_serving
<1>5. CASE RenewalFails
  BY <1>5 DEF RenewalFails
<1>6. CASE KeyDown
  BY <1>6 DEF KeyDown
<1>7. CASE KeyBack
  BY <1>7 DEF KeyBack
<1>8. CASE Tick
  <2>1. left' \in 0..Validity /\ served' \in 0..Validity
    BY <1>8 DEF Monus, Tick
  <2>2. asked' \in 0..Latency
    BY <1>8 DEF Tick, Waiting, Asking
  <2>3. outage' \in 0..MaxOutage
    BY <1>8 DEF Tick
  <2> QED
    BY <1>8, <2>1, <2>2, <2>3 DEF Tick
<1>9. CASE UNCHANGED vars
  BY <1>9 DEF vars
<1> QED
  BY <1>1, <1>2, <1>3, <1>4, <1>5, <1>6, <1>7, <1>8, <1>9 DEF Next, Work

\* Every variable of the renewer keeps its type (ServingTls!TypeOK).
THEOREM TypeCorrect == Spec => []TypeOK
<1>1. Init => TypeOK
  BY ServingTlsAssumption DEF Init, TypeOK, Pcs
<1> QED
  BY <1>1, TypeStep, PTL DEF Spec

\* Every step leaves enough of the certificate for the rest of the renewal.
LEMMA AheadStep ==
    ASSUME Covered, TypeOK, TypeOK', Ahead, [Next]_vars
    PROVE  Ahead'
<1> USE ServingTlsAssumption, BackoffBound DEF TypeOK, Pcs, key, Reserve, Ahead, Covered
<1>1. CASE Boot
  <2>1. CASE pc' = "plan"
    BY <1>1, <2>1 DEF Boot
  <2>2. CASE pc' = "refused"
    BY <1>1, <2>2 DEF Boot
  <2> QED
    BY <1>1, <2>1, <2>2 DEF Boot
<1>2. CASE Plan
  <2>1. PICK j \in 0..RenewJitter : left' = renew_delay(j)
    BY <1>2 DEF Plan
  <2>2. served >= RenewBefore => served - left' >= RenewBefore
    BY <2>1 DEF Monus, renew_delay
  <2>3. served < RenewBefore => left' = 0
    BY <2>1 DEF Monus, renew_delay
  <2> QED
    BY <1>2, <2>2, <2>3 DEF Plan
<1>3. CASE WakeUp
  BY <1>3 DEF WakeUp
<1>4. CASE issue_serving
  BY <1>4 DEF issue_serving
<1>5. CASE RenewalFails
  BY <1>5 DEF RenewalFails
<1>6. CASE KeyDown
  BY <1>6 DEF KeyDown
<1>7. CASE KeyBack
  BY <1>7 DEF KeyBack
<1>8. CASE Tick
  <2>1. pc # "start" /\ pc # "refused" => served > 0
    BY <1>8 DEF Tick, Waiting, Asking
  <2>2. pc # "start" /\ pc # "refused" => served' = served - 1
    BY <1>8, <2>1 DEF Monus, Tick
  <2>3. pc \in {"sleep", "backoff"} => left > 0 /\ left' = left - 1
    BY <1>8 DEF Monus, Tick, Waiting, Asking
  <2> QED
    BY <1>8, <2>2, <2>3 DEF Tick, Waiting, Asking
<1>9. CASE UNCHANGED vars
  BY <1>9 DEF vars
<1> QED
  BY <1>1, <1>2, <1>3, <1>4, <1>5, <1>6, <1>7, <1>8, <1>9 DEF Next, Work

\* The listener never presents an expired certificate while outages of the CA key stay
\* within what the renewal window covers (run_renewer, renew_delay).
THEOREM ServedNeverExpires == Spec => []NeverExpired
<1>1. Init => IInv
  BY ServingTlsAssumption DEF Init, IInv, TypeOK, Pcs, Ahead, Covered
<1>2. IInv /\ [Next]_vars => IInv'
  BY TypeStep, AheadStep DEF IInv, Covered, Backoff
<1>3. IInv => NeverExpired
  BY ServingTlsAssumption, BackoffBound DEF IInv, TypeOK, Pcs, Ahead, Reserve, Covered, NeverExpired
<1> QED
  BY <1>1, <1>2, <1>3, PTL DEF Spec
==============================================================================
