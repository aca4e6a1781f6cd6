------------------------------- MODULE Lineage -------------------------------
(***************************************************************************)
(* What a certificate says, from the token it is signed for through every  *)
(* renewal and rekey of it: the start of a server from its configuration   *)
(* (builder.rs, config.rs), the provisioner a token is routed to           *)
(* (authorizer/mod.rs), the SANs its token permits (service.rs), the hooks *)
(* (HookPipeline) and the extensions the CA puts together (template.rs,    *)
(* ca.rs, x509.rs).                                                        *)
(*                                                                         *)
(* One certificate is followed, one request at a time; what concurrent     *)
(* requests, the clock and the store do to each other is module Issuance.  *)
(* A request that fails a check before its hooks leaves nothing behind: it *)
(* is an action that is not enabled.                                       *)
(***************************************************************************)
EXTENDS HookPipeline

CONSTANTS
    Key,           \* subject keys, each standing for its identifier too
    CaKey,         \* the identifier of the CA key
    Issuer,        \* token issuers; provisioner names are issuers too
    Template,      \* template names
    Servers,       \* the configurations a server may be started with
    Tokens, Csrs,  \* what clients may send
    Injectable,    \* the extensions a hook may add
    Encodable,     \* SANs whose text is IA5
    Foreign,       \* a general name that is none of San (otherName, ...)
    Garbage,       \* an extension value that does not decode
    Empty,         \* the empty common name, the empty list of usages
    MaxReissues    \* bound on the renewals and rekeys of the certificate

Oid == {"bc", "ku", "eku", "san", "ski", "aki", "marker", "other"}

\* The CA alone writes these.
Reserved == {"ski", "aki", "marker"}

TemplateInfo == [is_ca : BOOLEAN, ku : Value, eku : Value, set_common_name : BOOLEAN]

\* `issuer` and `discovery`: jwks.issuer, and the issuer that the discovery URL ends in.
ProvisionerConfig ==
    [name : Provisioner, kind : {"jwk", "jwks"}, issuer : Issuer \cup {Absent},
     discovery : Issuer \cup {Absent}, authorized : BOOLEAN \cup {Absent},
     template : Template \cup {Absent}, keys : SUBSET Key]

\* `fits`: the signing key is the key of the issuing certificate.
Server == [provisioners : Seq(ProvisionerConfig), hooks : Seq(Hook),
           templates : [Template -> TemplateInfo \cup {Absent}],
           default_template : Template \cup {Absent}, fits : BOOLEAN]

\* `by` is the key that signed it, `cnf` the CSR it is bound to.
Csr == [key : Key, sans : SUBSET (San \cup {Foreign}), possession : BOOLEAN]
Token == [iss : Issuer, by : Key, sub : San, sans : SUBSET San, renew : BOOLEAN,
          cnf : Csr \cup {Absent}]

\* Named by oid; the order in the certificate carries no meaning.
ExtensionValue ==
    Value \cup Key \cup {CaKey, Garbage} \cup [ca : BOOLEAN] \cup [renewable : BOOLEAN]
      \cup [names : SUBSET (San \cup {Foreign}), critical : BOOLEAN]

Certificate == [subject : Value \cup San, key : Key, exts : [Oid -> ExtensionValue \cup {Absent}]]

\* A hook may inject anything; names that do not decode are Garbage.
ASSUME LineageAssumption ==
    /\ Provisioner \subseteq Issuer /\ Encodable \subseteq San
    /\ Empty \in Value /\ Value # {Empty}
    /\ {"subject_common_name", "key_usage", "extended_key_usage"} \subseteq Field
    /\ Servers \subseteq Server /\ Tokens \subseteq Token /\ Csrs \subseteq Csr
    /\ Injectable \subseteq [oid : Oid, val : ExtensionValue]
    /\ \A e \in Injectable : e.oid = "san" =>
          e.val \in {Garbage} \cup [names : SUBSET (San \cup {Foreign}), critical : BOOLEAN]
    /\ Absent \notin ExtensionValue \cup TemplateInfo \cup Csr \cup BOOLEAN \cup Issuer \cup Template
    /\ Absent \notin Server \cup ProvisionerConfig \cup Certificate
    /\ Foreign \notin San
    /\ MaxReissues \in Nat

VARIABLES
    server,   \* the configuration that runs, or Absent
    stage,    \* "down", "idle" or "hooks": a request waits for its hooks
    req,      \* that request
    cert,     \* the certificate the client holds, or Absent
    line      \* history: what its line of requests was allowed and told

lineVars == <<server, stage, req, cert, line>>
allVars == <<server, stage, req, cert, line, hooks, ctx, pos, hung, custom, granted, outcome, replies>>

NoContext == [authorized |-> TRUE, provisioner |-> Absent, sans |-> {}, renewable |-> TRUE]
NoRequest == [op |-> "none", key |-> Absent, iss |-> Absent, sub |-> Absent,
              template |-> Absent, permitted |-> {}]
\* base: SANs the token permits (or the CSR asks for, where the token does not decide);
\* sans, values: what hooks said since; template: the one it was signed under; final:
\* somebody said it must not be renewed; late: it was reissued all the same.
NoLine == [base |-> {}, sans |-> {}, values |-> {}, template |-> Absent,
           final |-> FALSE, late |-> FALSE, reissues |-> 0]

LineageInit ==
    /\ server = Absent /\ stage = "down" /\ req = NoRequest /\ cert = Absent /\ line = NoLine
    /\ hooks = <<>> /\ ctx = NoContext /\ Opened

\* hook::run is called for `c`, with the hooks of `hs`.
Begin(c, hs) ==
    /\ hooks' = hs /\ ctx' = c /\ custom' = Seed(c)
    /\ pos' = 1 /\ hung' = FALSE /\ granted' = FALSE /\ outcome' = "running"
    /\ replies' = [i \in 1..Len(hs) |-> Absent]

Configured(s) == {s.provisioners[i] : i \in DOMAIN s.provisioners}

----------------------------------------------------------------------------
(* Start *)

\* The value if there is one, or else the default.
Or(v, default) == IF v # Absent THEN v ELSE default

effective_authorized(p) == Or(p.authorized, p.kind = "jwk")

\* The routing key of a provisioner.
expected_issuer(p) ==
    IF p.kind = "jwk" THEN p.name ELSE Or(p.issuer, Or(p.discovery, p.name))

\* Mutant of from_configs: names are compared instead of issuers.
from_configs_Names(s) ==
    \A i, j \in DOMAIN s.provisioners : s.provisioners[i].name = s.provisioners[j].name => i = j

\* No issuer is claimed twice.
from_configs(s) ==
    \A i, j \in DOMAIN s.provisioners :
        expected_issuer(s.provisioners[i]) = expected_issuer(s.provisioners[j]) => i = j

\* Mutant of validate_provisioner_authorization: any hook will do.
validate_provisioner_authorization_Any(s) ==
    \A p \in Configured(s) : effective_authorized(p) \/ s.hooks # <<>>

\* A provisioner that does not authorize has a hook that could.
validate_provisioner_authorization(s) ==
    \A p \in Configured(s) :
        \/ effective_authorized(p)
        \/ \E i \in DOMAIN s.hooks : s.hooks[i].provisioners = {} \/ p.name \in s.hooks[i].provisioners

\* Every template that is referred to is defined.
TemplatesDefined(s) ==
    \A t \in {s.default_template} \cup {p.template : p \in Configured(s)} :
        t # Absent => s.templates[t] # Absent

\* CertificateAuthority::new compares the public keys.
KeyFits(s) == s.fits

\* A server starts, or restarts between two requests with another configuration.
build_service(s) ==
    /\ stage \in {"down", "idle"}
    /\ TemplatesDefined(s) /\ validate_provisioner_authorization(s) /\ KeyFits(s) /\ from_configs(s)
    /\ server' = s
    /\ stage' = "idle"
    /\ req' = NoRequest
    /\ Begin(NoContext, s.hooks)
    /\ UNCHANGED <<cert, line>>

----------------------------------------------------------------------------
(* Requests, up to their hooks *)

\* Without a default in the configuration: CertificateTemplate::default.
FallbackTemplate == [is_ca |-> FALSE, ku |-> CHOOSE v \in Value : v # Empty,
                     eku |-> CHOOSE v \in Value : v # Empty, set_common_name |-> TRUE]

resolve_template(p) ==
    LET t == Or(p.template, server.default_template)
    IN  IF t = Absent THEN FallbackTemplate ELSE server.templates[t]

\* The provisioner a token is routed to, before its signature is looked at.
Routed(t) ==
    LET I == {i \in DOMAIN server.provisioners : expected_issuer(server.provisioners[i]) = t.iss}
    IN  IF I = {} THEN Absent ELSE server.provisioners[CHOOSE i \in I : \A j \in I : i <= j]

allowed_sans(t) == IF t.sans = {} THEN {t.sub} ELSE t.sans

\* General names that are no San are not read.
requested_sans(c) == c.sans \ {Foreign}

\* The SANs the pipeline starts from; an authorizing token bounds them.
EffectiveSans(t, c, p) ==
    IF effective_authorized(p) /\ requested_sans(c) = {} THEN allowed_sans(t) ELSE requested_sans(c)

\* Mutant of SansPermitted: one permitted name lets the others pass.
SansPermitted_One(t, c, p) ==
    effective_authorized(p) => EffectiveSans(t, c, p) \cap allowed_sans(t) # {}

SansPermitted(t, c, p) == effective_authorized(p) => EffectiveSans(t, c, p) \subseteq allowed_sans(t)

Sign(t, c) ==
    LET prov == Routed(t)
    IN  /\ stage = "idle" /\ cert = Absent
        /\ c.possession
        /\ prov # Absent /\ t.by \in prov.keys
        /\ t.cnf \in {Absent, c}
        /\ SansPermitted(t, c, prov)
        /\ Begin([authorized |-> effective_authorized(prov), provisioner |-> prov.name,
                  sans |-> EffectiveSans(t, c, prov), renewable |-> t.renew], hooks)
        /\ req' = [op |-> "sign", key |-> c.key, iss |-> t.iss, sub |-> t.sub,
                   template |-> resolve_template(prov),
                   permitted |-> IF effective_authorized(prov) THEN allowed_sans(t) ELSE requested_sans(c)]
        /\ stage' = "hooks"
        /\ UNCHANGED <<server, cert, line>>

\* Mutant of is_marked_non_renewable: the flag is read as "not renewable".
is_marked_non_renewable_Set(c) == c.exts["marker"] \notin {Absent, [renewable |-> FALSE]}

\* A value that does not decode counts as a mark.
is_marked_non_renewable(c) == c.exts["marker"] \notin {Absent, [renewable |-> TRUE]}

cert_sans(c) == IF c.exts["san"] = Absent THEN {} ELSE c.exts["san"].names \ {Foreign}

\* try_renew_or_rekey: possession authorizes; of the CSR only the key is taken.
Reissue(op, key) ==
    /\ stage = "idle" /\ cert # Absent /\ line.reissues < MaxReissues
    /\ ~is_marked_non_renewable(cert)
    /\ cert.exts["san"] # Garbage
    /\ Begin([authorized |-> TRUE, provisioner |-> Absent, sans |-> cert_sans(cert),
              renewable |-> TRUE], hooks)
    /\ req' = [NoRequest EXCEPT !.op = op, !.key = key]
    /\ stage' = "hooks"
    /\ UNCHANGED <<server, cert, line>>

Renew == cert # Absent /\ Reissue("renew", cert.key)
Rekey(c) == c.possession /\ Reissue("rekey", c.key)

Pipeline == stage = "hooks" /\ Next /\ UNCHANGED lineVars

----------------------------------------------------------------------------
(* The certificate *)

\* upsert_extension for every extension of `inj` in turn: the last of an oid stays.
Upserted(exts, inj) ==
    [o \in Oid |->
        LET N == {n \in DOMAIN inj : inj[n].oid = o}
        IN  IF N = {} THEN exts[o] ELSE inj[CHOOSE n \in N : \A m \in N : m <= n].val]

\* No extension without a usage in it, and none without a name.
UsageExtension(v) == IF v = Empty THEN Absent ELSE v
subject_alt_name_extension(names, critical) ==
    IF names = {} THEN Absent ELSE [names |-> names, critical |-> critical]

\* Mutant of Sealed: an extension that is there already stays.
Sealed_Keep(exts) ==
    [exts EXCEPT !["ski"] = Or(@, req.key), !["aki"] = Or(@, CaKey),
                 !["marker"] = Or(@, IF custom.renewable THEN Absent ELSE [renewable |-> FALSE])]

\* finalize_key_identifiers and set_non_renewable_marker: whatever is there is replaced.
Sealed(exts) ==
    [exts EXCEPT !["ski"] = req.key, !["aki"] = CaKey,
                 !["marker"] = IF custom.renewable THEN Absent ELSE [renewable |-> FALSE]]

Override(f, default) == Or(custom.over[f], default)

\* A new certificate: the template, the hooks on top of it.
issue(inj) ==
    LET t  == req.template
        cn == IF t.set_common_name THEN Override("subject_common_name", req.sub) ELSE Empty
        built == [o \in Oid |->
                    CASE o = "bc"  -> [ca |-> t.is_ca]
                      [] o = "ku"  -> UsageExtension(Override("key_usage", t.ku))
                      [] o = "eku" -> UsageExtension(Override("extended_key_usage", t.eku))
                      [] o = "san" -> subject_alt_name_extension(custom.sans, cn = Empty)
                      [] OTHER -> Absent]
    IN  [subject |-> cn, key |-> req.key, exts |-> Sealed(Upserted(built, inj))]

\* Mutant of reissue: the usages are those of the template in force.
reissue_Rederived(inj) ==
    LET cn == Override("subject_common_name", cert.subject)
        t  == resolve_template([template |-> Absent])
        base == [cert.exts EXCEPT !["san"] = subject_alt_name_extension(custom.sans, cn = Empty),
                                  !["ku"] = UsageExtension(t.ku)]
    IN  [subject |-> cn, key |-> req.key, exts |-> Sealed(Upserted(base, inj))]

\* The next one: everything of the previous certificate, the hooks on top of it.
reissue(inj) ==
    LET cn == Override("subject_common_name", cert.subject)
        usage(o, f) == IF custom.over[f] = Absent THEN cert.exts[o] ELSE UsageExtension(custom.over[f])
        base == [cert.exts EXCEPT !["san"] = subject_alt_name_extension(custom.sans, cn = Empty),
                                  !["ku"] = usage("ku", "key_usage"),
                                  !["eku"] = usage("eku", "extended_key_usage")]
    IN  [subject |-> cn, key |-> req.key, exts |-> Sealed(Upserted(base, inj))]

\* History: the names and the values that the hooks put in.
ToldNames(inj) ==
    UNION ({replies[i].add : i \in Consulted}
             \cup {replies[i].sans : i \in {j \in Consulted : replies[j].sans # Absent}}
             \cup {inj[n].val.names : n \in {m \in DOMAIN inj : inj[m].oid = "san" /\ inj[m].val # Garbage}})
ToldValues(inj) ==
    LET said(f) == {replies[i].over[f] : i \in Consulted} \ {Absent}
    IN  {<<"ku", UsageExtension(v)>> : v \in said("key_usage")}
          \cup {<<"eku", UsageExtension(v)>> : v \in said("extended_key_usage")}
          \cup {<<inj[n].oid, inj[n].val>> : n \in {m \in DOMAIN inj : inj[m].oid \notin Reserved}}

\* The handler returns: what it knew of the request is gone.
Return == stage' = "idle" /\ req' = NoRequest /\ Begin(NoContext, hooks)

\* The hooks let the request pass: the certificate, unless a SAN cannot be encoded.
Issue(inj) ==
    /\ stage = "hooks" /\ outcome = "ok"
    /\ custom.sans \subseteq Encodable
    /\ cert' = IF req.op = "sign" THEN issue(inj) ELSE reissue(inj)
    /\ line' = [base |-> IF req.op = "sign" THEN req.permitted ELSE line.base,
                sans |-> line.sans \cup ToldNames(inj),
                values |-> line.values \cup ToldValues(inj),
                template |-> IF req.op = "sign" THEN req.template ELSE line.template,
                final |-> ~(ctx.renewable /\ \A i \in Consulted : replies[i].renew # FALSE),
                late |-> line.final,
                reissues |-> IF req.op = "sign" THEN 0 ELSE line.reissues + 1]
    /\ Return
    /\ UNCHANGED server

\* An error: of the hooks, of the encoding or of the CA key.
Refuse ==
    /\ stage = "hooks" /\ outcome # "running"
    /\ Return
    /\ UNCHANGED <<server, cert, line>>

Finish == Refuse \/ \E inj \in [DOMAIN custom.exts -> Injectable] : Issue(inj)

LineageNext ==
    \/ \E s \in Servers : build_service(s)
    \/ \E t \in Tokens, c \in Csrs : Sign(t, c)
    \/ Renew
    \/ \E c \in Csrs : Rekey(c)
    \/ Pipeline
    \/ Finish

LineageSpec == LineageInit /\ [][LineageNext]_allVars

\* The runtime polls the handler, and a timer that is set fires.
LineageFairSpec == LineageSpec /\ WF_allVars(Pipeline) /\ WF_allVars(Finish)

----------------------------------------------------------------------------
(* Properties *)

\* The names of a certificate, however often it was renewed or rekeyed, by whatever
\* server and with whatever CSR, were permitted by the token it goes back to (asked for by
\* the CSR of that request, where hooks and not the token decide) or put in by a hook
\* (try_sign, try_renew_or_rekey, ca::reissue).
NamesAccounted ==
    cert # Absent /\ cert.exts["san"] \notin {Absent, Garbage} =>
        cert.exts["san"].names \subseteq line.base \cup line.sans \cup {Foreign}

\* A certificate keeps the policy it was signed under: its constraints, usages and
\* further extensions are those of that template or of a hook since, also after a
\* restart with other templates (build_extensions, ca::reissue).
PolicyKept ==
    cert # Absent =>
        /\ cert.exts["bc"] = [ca |-> line.template.is_ca] \/ <<"bc", cert.exts["bc"]>> \in line.values
        /\ cert.exts["ku"] = UsageExtension(line.template.ku)
              \/ <<"ku", cert.exts["ku"]>> \in line.values
        /\ cert.exts["eku"] = UsageExtension(line.template.eku)
              \/ <<"eku", cert.exts["eku"]>> \in line.values
        /\ cert.exts["other"] = Absent \/ <<"other", cert.exts["other"]>> \in line.values

\* A certificate is marked exactly when its token or a hook said it is not renewable,
\* whatever extensions hooks inject, and then it is the last of its line
\* (set_non_renewable_marker, is_marked_non_renewable).
NonRenewableIsFinal ==
    cert # Absent =>
        /\ cert.exts["marker"] = IF line.final THEN [renewable |-> FALSE] ELSE Absent
        /\ ~line.late

\* The key identifiers are those of the certificate's key and of the CA, also after a
\* rekey and whatever hooks inject; without a subject the names are critical, unless a
\* hook wrote that extension itself (finalize_key_identifiers, subject_alt_name_extension).
WellFormed ==
    cert # Absent =>
        /\ cert.exts["ski"] = cert.key /\ cert.exts["aki"] = CaKey
        /\ cert.subject = Empty /\ cert.exts["san"] # Absent =>
              <<"san", cert.exts["san"]>> \in line.values \/ cert.exts["san"].critical

\* The policy applied to a token is that of the only provisioner that answers to its
\* issuer: no other one could have authorized it, or not (from_configs, validate).
RoutingUnambiguous ==
    stage = "hooks" /\ req.op = "sign" =>
        \A p \in Configured(server) : expected_issuer(p) = req.iss =>
            p.name = ctx.provisioner /\ effective_authorized(p) = ctx.authorized

\* A server that starts refuses nobody by mere configuration: whenever a request is
\* forbidden after its checks, a hook was asked and did not let it pass
\* (validate_provisioner_authorization, unauthorized_guard).
RefusedByHook ==
    outcome = "forbidden" => \E i \in Consulted : replies[i] # Absent /\ replies[i].allow # "grant"

\* A request ends, or waits for ever on a hook that does not answer and has no timeout:
\* none configured, or a Lambda function (ExecHook::invoke, HttpHook::new).
RequestEnds ==
    stage = "hooks" ~>
        \/ stage # "hooks"
        \/ [](hung /\ ~(hooks[pos].kind \in {"http", "exec"} /\ hooks[pos].timeout))
==============================================================================
