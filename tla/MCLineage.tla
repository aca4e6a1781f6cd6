----------------------------- MODULE MCLineage -----------------------------
(* Small instances of Lineage, and of HookPipeline within it, for TLC. *)
EXTENDS Lineage

CONSTANTS p, q, d, x, y, z, s, one, two, k1, k2, t1, t2

None == [f \in Field |-> Absent]
Silent == [allow |-> Absent, renew |-> Absent, over |-> None, sans |-> Absent, add |-> {},
           exts |-> "none", once |-> <<>>]

\* What a reply says about the certificate, apart from its verdict.
Customizations ==
    {[Silent EXCEPT !.renew = FALSE],
     [Silent EXCEPT !.renew = TRUE, !.exts = "good"],
     [Silent EXCEPT !.over = [f \in Field |-> two], !.add = {y}, !.once = <<s>>],
     [Silent EXCEPT !.over = [f \in Field |-> Empty], !.sans = {y}, !.add = {x}],
     [Silent EXCEPT !.sans = {}, !.once = <<s, s>>],
     [Silent EXCEPT !.add = {z}],
     [Silent EXCEPT !.exts = "bad"]}

ReplySet == {[c EXCEPT !.allow = "grant"] : c \in Customizations}
              \cup {Silent, [Silent EXCEPT !.allow = "deny", !.exts = "good"]}

\* Marks and identifiers that are not a hook's to write, and extensions that are.
InjectableSet ==
    {[oid |-> "marker", val |-> Garbage], [oid |-> "ski", val |-> k2],
     [oid |-> "san", val |-> Garbage],
     [oid |-> "san", val |-> [names |-> {y, Foreign}, critical |-> FALSE]],
     [oid |-> "bc", val |-> [ca |-> TRUE]], [oid |-> "other", val |-> one]}

Leaf == [is_ca |-> FALSE, ku |-> one, eku |-> two, set_common_name |-> TRUE]
Anonymous == [is_ca |-> FALSE, ku |-> two, eku |-> Empty, set_common_name |-> FALSE]

P == [name |-> p, kind |-> "jwk", issuer |-> Absent, discovery |-> Absent,
      authorized |-> Absent, template |-> Absent, keys |-> {k1}]
Q == [P EXCEPT !.name = q, !.kind = "jwks", !.discovery = d, !.template = t2, !.keys = {k2}]

H(k, ps, t) == [kind |-> k, provisioners |-> ps, timeout |-> t]
ConfigSet ==
    {<<>>,
     <<H("exec", {q}, TRUE)>>,
     <<H("http", {}, TRUE), H("exec", {p}, TRUE), H("lambda", {p, q}, TRUE)>>,
     <<H("exec", {q}, FALSE), H("exec", {}, FALSE), H("http", {p}, TRUE)>>}

Main == [provisioners |-> <<P, Q>>,
         hooks |-> <<H("http", {}, TRUE), H("exec", {p}, TRUE), H("lambda", {p, q}, TRUE)>>,
         templates |-> [t \in Template |-> IF t = t1 THEN Leaf ELSE Anonymous],
         default_template |-> t1, fits |-> TRUE]
ServerSet ==
    {Main,
     [Main EXCEPT !.provisioners = <<[P EXCEPT !.authorized = FALSE], Q>>,
                  !.hooks = <<H("exec", {q}, FALSE), H("exec", {}, FALSE), H("http", {p}, TRUE)>>,
                  !.default_template = t2],
     [Main EXCEPT !.provisioners = <<P>>, !.hooks = <<>>, !.default_template = Absent],
     \* Refused: an issuer claimed twice, no hook that could grant, a template that is
     \* not defined, a key that does not fit.
     [Main EXCEPT !.provisioners = <<P, [Q EXCEPT !.issuer = p]>>],
     [Main EXCEPT !.hooks = <<H("exec", {p}, TRUE)>>],
     [Main EXCEPT !.templates = [t \in Template |-> IF t = t1 THEN Leaf ELSE Absent]],
     [Main EXCEPT !.fits = FALSE]}

T == [iss |-> p, by |-> k1, sub |-> x, sans |-> {}, renew |-> TRUE, cnf |-> Absent]
CsrSet == {[key |-> k1, sans |-> {}, possession |-> TRUE],
           [key |-> k2, sans |-> {x, Foreign}, possession |-> TRUE],
           [key |-> k1, sans |-> {x, y}, possession |-> TRUE],
           [key |-> k2, sans |-> {}, possession |-> FALSE]}
TokenSet == {T, [T EXCEPT !.sans = {x, y}, !.renew = FALSE], [T EXCEPT !.iss = d, !.by = k2],
             [T EXCEPT !.by = k2],
             [T EXCEPT !.cnf = [key |-> k2, sans |-> {x, Foreign}, possession |-> TRUE]]}

\* Requests come from Sign, Renew and Rekey.
ContextSet == {NoContext}
=============================================================================
