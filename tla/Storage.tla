------------------------------- MODULE Storage -------------------------------
(***************************************************************************)
(* The shared store behind the certificate service: the one-time claims    *)
(* (table `tokens`), the revocation records and the issued-certificate     *)
(* inventory, with the two backends of ayane/src/storage.  Every operator  *)
(* here is one call of the Storage trait; the service composes them into   *)
(* its request handlers (module Issuance).                                 *)
(*                                                                         *)
(* Time is the wall clock in whole seconds, as both backends store it, and *)
(* is assumed not to step backwards.                                       *)
(***************************************************************************)
EXTENDS Integers

CONSTANTS
    Backend,      \* "sqlite" or "dynamodb"
    TTL_BUFFER,   \* seconds DynamoDB keeps a claim beyond its expiry
    Staleness,    \* how old a DynamoDB write may be and still be missed by an
                  \* eventually consistent GetItem
    Jti,          \* one-time identifiers carried by tokens and DPoP proofs
    Scope,        \* namespaced values of once-per-scope constraints
    Serial,       \* decimal serial numbers
    Req,          \* requests
    Absent        \* no row, no value

\* `at` is when the record was written, `by` the request that wrote it.
Revocation == [at : Nat, by : Req]

ASSUME StorageAssumption ==
    /\ Backend \in {"sqlite", "dynamodb"}
    /\ TTL_BUFFER \in Nat
    /\ Staleness \in Nat
    /\ Absent \notin Nat \cup Req

\* No record is taken for a missing one.
ASSUME RevocationAssumption == Absent \notin Revocation

VARIABLES
    now,          \* the wall clock
    tokens,       \* claim key -> expiry kept in its row, or Absent
    revocations,  \* serial -> revocation record, or Absent
    inventory     \* the issued-certificate rows

\* `ott#<jti>`, `dpop#<jti>` and `scope#<namespace>#<value>` never coincide.
ClaimKey == ({"ott", "dpop"} \X Jti) \cup ({"scope"} \X Scope)

----------------------------------------------------------------------------
(* One-time claims *)

\* Mutant of RowBuffer: DynamoDB's ttl attribute without the buffer.
RowBuffer_None == 0

\* How long past the requested expiry a row keeps holding its key.
RowBuffer == IF Backend = "dynamodb" THEN TTL_BUFFER ELSE 0

\* Mutants of Claimable: no condition on the insert; expired rows keep their key.
Claimable_Always(k, t) == TRUE
Claimable_Absent(k, t) == tokens[k] = Absent

\* The condition of the conditional insert, with the clock `t` the caller read
\* before it queued for the connection (or sent the PutItem).
Claimable(k, t) == tokens[k] # Absent => tokens[k] <= t

\* The row a successful claim_token leaves.
ClaimRow(k, expires) == [tokens EXCEPT ![k] = expires + RowBuffer]

\* SQLite's hourly reaper deletes every expired row in one transaction.
reap_expired ==
    /\ Backend = "sqlite"
    /\ tokens' = [k \in ClaimKey |->
                    IF tokens[k] # Absent /\ tokens[k] <= now THEN Absent ELSE tokens[k]]

\* DynamoDB's own TTL sweep deletes expired items one by one, whenever it likes.
TtlSweep(k) ==
    /\ Backend = "dynamodb"
    /\ tokens[k] # Absent
    /\ tokens[k] <= now
    /\ tokens' = [tokens EXCEPT ![k] = Absent]

----------------------------------------------------------------------------
(* Revocations *)

\* Mutant of RevokeRow: an unconditional put.
RevokeRow_Replace(s, rec) == [revocations EXCEPT ![s] = rec]

\* The first record of a serial wins; revoking again changes nothing.
RevokeRow(s, rec) ==
    IF revocations[s] = Absent THEN [revocations EXCEPT ![s] = rec] ELSE revocations

\* Mutant of RevocationReads: any record may be missed.
RevocationReads_Lost(s) == {revocations[s], Absent}

\* What get_revocation may answer: SQLite reads its only copy, DynamoDB's
\* GetItem is eventually consistent and may miss a recent write.
RevocationReads(s) ==
    {revocations[s]} \cup
    (IF Backend = "dynamodb" /\ revocations[s] # Absent /\ now - revocations[s].at <= Staleness
     THEN {Absent} ELSE {})

----------------------------------------------------------------------------
(* Inventory *)

\* The row key a certificate is inserted under: SQLite's primary key is the
\* serial, DynamoDB's is the serial with the common name as sort key.
SameRow(c, d) ==
    /\ c.serial = d.serial
    /\ Backend = "dynamodb" => c.cn = d.cn

\* Mutant of RowTaken: an insert that replaces.
RowTaken_Never(c) == FALSE

\* The plain or conditional insert fails when the row is taken.
RowTaken(c) == \E d \in inventory : SameRow(c, d)
==============================================================================
