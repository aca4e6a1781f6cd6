----------------------------- MODULE AnchorSearch -----------------------------
(***************************************************************************)
(* How a client of GET /v1/roots anchors the signer of the bundle in its   *)
(* pinned roots (ayane-cli/src/httpsig.rs): a depth-first search through   *)
(* the certificates the server sent, an unordered bag with cross-signed    *)
(* twins, lapsed certificates and cycles in it, checked against the paths  *)
(* that exist.  A signature verifies under the one key that made it.       *)
(***************************************************************************)
EXTENDS Integers

CONSTANTS
    Name, Key,        \* subject and issuer names, key pairs
    Window,           \* validity windows <<notBefore, notAfter>>
    MAX_PATH_DEPTH,
    Served,           \* what a server may send besides the signer
    Bundles,          \* the pinned root bundles a client may have
    now               \* the verification instant

\* `by` is the key that really signed the certificate.
Node == [subject : Name, spki : Key, issuer : Name, by : Key, ca : BOOLEAN, window : Window]

ASSUME AnchorAssumption ==
    /\ now \in Nat /\ MAX_PATH_DEPTH \in Nat
    /\ \A w \in Window : w[1] \in Nat /\ w[2] \in Nat
    /\ Served \subseteq SUBSET Node /\ Bundles \subseteq SUBSET Node

VARIABLES
    chain,     \* [signer, others]: what the server sent
    known,     \* the pinned bundle
    verdict    \* "none", "anchored" or "refused"

vars == <<chain, known, verdict>>

Init ==
    /\ \E s \in Node, o \in Served : chain = [signer |-> s, others |-> o]
    /\ known \in Bundles
    /\ verdict = "none"

Bag == {chain.signer} \cup chain.others

----------------------------------------------------------------------------
(* The search *)

\* Mutant of temporally_valid: notAfter is not looked at.
temporally_valid_Started(t) == t.window[1] <= now

temporally_valid(t) == /\ t.window[1] <= t.window[2]
                       /\ t.window[1] <= now
                       /\ now <= t.window[2]

\* The certificate itself and its cross-signed twins.
Twins(c) == {c} \cup {n \in Bag : n.subject = c.subject /\ n.spki = c.spki}

\* It is a pinned root, or one issued it.
Anchored(t) == \E a \in known : a = t \/ (a.subject = t.issuer /\ a.spki = t.by)

Issuers(t) == {n \in Bag : n.ca /\ n.subject = t.issuer /\ n.spki = t.by}

Edge(t) == <<t.subject, t.spki, t.issuer>>
Edges == Name \X Key \X Name

\* One call: a twin in force that is not on the path yet is anchored, or a call for one
\* of its issuers, answered by `deeper`, succeeds.  `visited` holds the edges of the
\* path that leads to c.
Call(deeper) ==
    [c \in Node |-> [visited \in SUBSET Edges |->
        \E t \in Twins(c) :
            /\ temporally_valid(t)
            /\ Edge(t) \notin visited
            /\ Anchored(t) \/ \E n \in Issuers(t) : deeper[n][visited \cup {Edge(t)}]]]

\* By the number of calls that may still be nested: MAX_PATH_DEPTH + 1 - depth.
reaches_anchor[calls \in Nat] ==
    IF calls = 0 THEN [c \in Node |-> [visited \in SUBSET Edges |-> FALSE]]
                 ELSE Call(reaches_anchor[calls - 1])

\* Mutant of anchor_signer: one call too few may be nested.
anchor_signer_Shallow ==
    /\ verdict = "none"
    /\ verdict' = IF reaches_anchor[MAX_PATH_DEPTH][chain.signer][{}] THEN "anchored" ELSE "refused"
    /\ UNCHANGED <<chain, known>>

anchor_signer ==
    /\ verdict = "none"
    /\ verdict' = IF reaches_anchor[MAX_PATH_DEPTH + 1][chain.signer][{}] THEN "anchored" ELSE "refused"
    /\ UNCHANGED <<chain, known>>

Next == anchor_signer

Spec == Init /\ [][Next]_vars

----------------------------------------------------------------------------
(* Properties *)

InForce(t) == t.window[1] <= now /\ now <= t.window[2]

\* A path of `m` hops as the documentation has it: certificates in force, from c or a
\* twin of it to one that is pinned or issued by a pinned root, each signed by the next,
\* which is marked as a CA.  (A pinned certificate needs no mark: the path ends before it.)
IsPath(p, m, c) ==
    /\ p[0] \in Twins(c)
    /\ \A i \in 0..m : InForce(p[i])
    /\ \A i \in 1..m : p[i].ca /\ p[i].subject = p[i - 1].issuer /\ p[i].spki = p[i - 1].by
    /\ \E a \in known : a = p[m] \/ (a.subject = p[m].issuer /\ a.spki = p[m].by)

PathExists == \E m \in 0..MAX_PATH_DEPTH : \E p \in [0..m -> Bag] : IsPath(p, m, chain.signer)

\* No path is missed: where one of at most MAX_PATH_DEPTH hops exists, the signer is
\* anchored.  Neither the loop guard, which confuses certificates with the same subject,
\* key and issuer, nor lapsed twins, cycles or the order of the bag hide it
\* (reaches_anchor).
PathsFound == verdict = "refused" => ~PathExists

\* The certificates sent that share a name and a key are all CA certificates or all not.
TwinsAgree == \A n, u \in Bag : n.subject = u.subject /\ n.spki = u.spki => n.ca = u.ca

\* No path is made up, as long as no CA certificate has a twin that is none: then the
\* signer is anchored only by a path of certificates in force through CAs
\* (reaches_anchor).
AnchoredByPath == verdict = "anchored" /\ TwinsAgree => PathExists

\* What the comment of anchor_signer promises without that condition: the signer is
\* anchored only by a path with every certificate in force and every intermediate
\* marked as a CA (reaches_anchor).
AnchoredThroughCAs == verdict = "anchored" => PathExists
==============================================================================
