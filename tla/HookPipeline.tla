----------------------------- MODULE HookPipeline -----------------------------
(***************************************************************************)
(* hook::run (ayane/src/hook/mod.rs): the hooks that apply to a request    *)
(* are asked one after the other, each with the same description of the    *)
(* certificate, and their replies are layered onto it in configuration     *)
(* order.  One reply may deny, tighten, override, add SANs, extensions and *)
(* once-scopes; a request whose credential does not authorize it by itself *)
(* needs a hook that grants it.  Hooks are remote (HTTP, Lambda) or        *)
(* subprocesses: they may fail or never answer.  Issuance uses the merged  *)
(* answer as one of its HookReplies.                                       *)
(***************************************************************************)
EXTENDS Integers, Sequences

CONSTANTS
    Provisioner, San, Scope,
    Field,       \* what a reply overrides whole: common name, notBefore,
                 \* notAfter, keyUsage, extendedKeyUsage
    Value,       \* what it may put there
    Replies,     \* the replies hooks may give
    Configs,     \* the hook lists a server may be configured with
    Contexts,    \* the requests a pipeline may run for
    Absent       \* Rust's None

HookReply ==
    [allow : {"grant", "deny", Absent},
     renew : BOOLEAN \cup {Absent},
     over  : [Field -> Value \cup {Absent}],
     sans  : (SUBSET San) \cup {Absent},      \* replaces the set
     add   : SUBSET San,                     \* is added to it
     exts  : {"none", "good", "bad"},        \* bad: the OID does not parse
     once  : Seq(Scope)]

\* Hook names are unique (docs/hooks.md): a hook is named by its place in the list.
Hook == [kind : {"http", "exec", "lambda"}, provisioners : SUBSET Provisioner, timeout : BOOLEAN]

Context == [authorized : BOOLEAN, provisioner : Provisioner \cup {Absent},
            sans : SUBSET San, renewable : BOOLEAN]

ASSUME HookAssumption ==
    /\ Absent \notin Provisioner \cup Value \cup HookReply
    /\ Absent # "deny" /\ Absent # "grant"
    /\ Replies \subseteq HookReply
    /\ Configs \subseteq Seq(Hook)
    /\ Contexts \subseteq Context

VARIABLES
    hooks,     \* the configured list
    ctx,       \* the request
    pos,       \* the hook being asked
    hung,      \* it will never answer
    custom,    \* the Customization gathered so far
    granted,   \* explicitly_allowed
    outcome,   \* "running", "ok", "forbidden", "bad_request" or "error"
    replies    \* history: the reply each hook gave

vars == <<hooks, ctx, pos, hung, custom, granted, outcome, replies>>

\* The Customization before any hook: the baseline of the request.
Seed(c) == [over |-> [f \in Field |-> Absent], sans |-> c.sans, exts |-> <<>>,
            once |-> <<>>, renewable |-> c.renewable]

\* hook::run has been called, and nobody has been asked.
Opened ==
    /\ pos = 1
    /\ hung = FALSE
    /\ custom = Seed(ctx)
    /\ granted = FALSE
    /\ outcome = "running"
    /\ replies = [i \in 1..Len(hooks) |-> Absent]

Init == hooks \in Configs /\ ctx \in Contexts /\ Opened

----------------------------------------------------------------------------
(* One hook *)

applies_to(i) == hooks[i].provisioners = {} \/ ctx.provisioner \in hooks[i].provisioners

Asking == outcome = "running" /\ pos <= Len(hooks) /\ applies_to(pos)

Skip ==
    /\ outcome = "running" /\ pos <= Len(hooks)
    /\ ~applies_to(pos)
    /\ pos' = pos + 1
    /\ UNCHANGED <<hooks, ctx, hung, custom, granted, outcome, replies>>

\* Mutant of Layer: additions are made before the set is replaced.
Layer_AddFirst(c, i, rep) ==
    [over |-> [f \in Field |-> IF rep.over[f] = Absent THEN c.over[f] ELSE rep.over[f]],
     sans |-> IF rep.sans = Absent THEN c.sans \cup rep.add ELSE rep.sans,
     exts |-> IF rep.exts = "none" THEN c.exts ELSE Append(c.exts, i),
     once |-> c.once \o [n \in DOMAIN rep.once |-> <<i, rep.once[n]>>],
     renewable |-> c.renewable /\ rep.renew # FALSE]

\* apply_response, and the once-scopes in the namespace of the hook.
Layer(c, i, rep) ==
    [over |-> [f \in Field |-> IF rep.over[f] = Absent THEN c.over[f] ELSE rep.over[f]],
     sans |-> (IF rep.sans = Absent THEN c.sans ELSE rep.sans) \cup rep.add,
     exts |-> IF rep.exts = "none" THEN c.exts ELSE Append(c.exts, i),
     once |-> c.once \o [n \in DOMAIN rep.once |-> <<i, rep.once[n]>>],
     renewable |-> c.renewable /\ rep.renew # FALSE]

Answer(rep) ==
    /\ Asking /\ ~hung
    /\ replies' = [replies EXCEPT ![pos] = rep]
    /\ \/ /\ rep.allow = "deny"
          /\ outcome' = "forbidden"
          /\ UNCHANGED <<pos, custom, granted>>
       \/ /\ rep.allow # "deny" /\ rep.exts = "bad"
          /\ outcome' = "bad_request"
          /\ UNCHANGED <<pos, custom, granted>>
       \/ /\ rep.allow # "deny" /\ rep.exts # "bad"
          /\ granted' = (granted \/ rep.allow = "grant")
          /\ custom' = Layer(custom, pos, rep)
          /\ pos' = pos + 1
          /\ UNCHANGED outcome
    /\ UNCHANGED <<hooks, ctx, hung>>

\* Spawn or connection failure, an unsuccessful status, an undecodable reply.
Fail ==
    /\ Asking /\ ~hung
    /\ outcome' = "error"
    /\ UNCHANGED <<hooks, ctx, pos, hung, custom, granted, replies>>

Hang ==
    /\ Asking /\ ~hung
    /\ hung' = TRUE
    /\ UNCHANGED <<hooks, ctx, pos, custom, granted, outcome, replies>>

\* Mutant of Timed: exec hooks run unbounded.
Timed_HttpOnly(h) == h.timeout /\ h.kind = "http"

\* A timeout is optional, and LambdaHook takes none.
Timed(h) == h.timeout /\ h.kind # "lambda"

Timeout ==
    /\ Asking /\ hung /\ Timed(hooks[pos])
    /\ outcome' = "error"
    /\ UNCHANGED <<hooks, ctx, pos, hung, custom, granted, replies>>

----------------------------------------------------------------------------
(* The end *)

\* Mutant of unauthorized_guard: a hook that does not object is enough.
unauthorized_guard_Silence == ctx.authorized \/ \E i \in 1..Len(hooks) : applies_to(i)

unauthorized_guard == ctx.authorized \/ granted

Conclude ==
    /\ outcome = "running" /\ pos > Len(hooks)
    /\ outcome' = IF unauthorized_guard THEN "ok" ELSE "forbidden"
    /\ UNCHANGED <<hooks, ctx, pos, hung, custom, granted, replies>>

Next ==
    \/ Skip \/ Fail \/ Hang \/ Timeout \/ Conclude
    \/ \E rep \in Replies : Answer(rep)

Spec == Init /\ [][Next]_vars

----------------------------------------------------------------------------
(* Properties *)

\* The type of the pipeline's state.
TypeOK ==
    /\ hooks \in Seq(Hook) /\ ctx \in Context
    /\ pos \in 1..(Len(hooks) + 1)
    /\ hung \in BOOLEAN /\ granted \in BOOLEAN
    /\ custom \in [over : [Field -> Value \cup {Absent}], sans : SUBSET San,
                   exts : Seq(1..Len(hooks)), once : Seq((1..Len(hooks)) \X Scope),
                   renewable : BOOLEAN]
    /\ outcome \in {"running", "ok", "forbidden", "bad_request", "error"}
    /\ replies \in [1..Len(hooks) -> HookReply \cup {Absent}]

Consulted == {i \in 1..Len(hooks) : applies_to(i)}

\* A request passes exactly when every hook that applies has replied, none denied it
\* or sent what cannot be encoded, and, unless its credential authorizes it, one of
\* them granted it: silence, a failure or a hook of another provisioner grants
\* nothing, and no later reply makes up for a denial (hook::run).
VerdictExact ==
    outcome # "running" =>
        (outcome = "ok" <=>
            /\ \A i \in Consulted : /\ replies[i] # Absent
                                    /\ replies[i].allow # "deny"
                                    /\ replies[i].exts # "bad"
            /\ ctx.authorized \/ \E i \in Consulted : replies[i].allow = "grant")

\* The last hook of A that overrides a field decides it.
LastOverride(A) ==
    \A f \in Field :
        \/ custom.over[f] = Absent /\ \A i \in A : replies[i].over[f] = Absent
        \/ \E i \in A : /\ replies[i].over[f] # Absent /\ custom.over[f] = replies[i].over[f]
                        /\ \A j \in A : j > i => replies[j].over[f] = Absent

\* The SANs are the last set that replaced them and every addition from there on.
Added(A, i) == UNION {replies[j].add : j \in {j \in A : j >= i}}
LastSans(A) ==
    \/ custom.sans = ctx.sans \cup Added(A, 1) /\ \A i \in A : replies[i].sans = Absent
    \/ \E i \in A : /\ replies[i].sans # Absent /\ custom.sans = replies[i].sans \cup Added(A, i)
                    /\ \A j \in A : j > i => replies[j].sans = Absent

\* The once-scopes are those of all hooks, each under the name of its own, in order.
ScopeOf(c, A) == c[1] \in A /\ \E k \in DOMAIN replies[c[1]].once : c[2] = replies[c[1]].once[k]
AllScopes(A) ==
    /\ \A n \in DOMAIN custom.once : ScopeOf(custom.once[n], A)
    /\ \A i \in A : \A k \in DOMAIN replies[i].once :
          \E n \in DOMAIN custom.once : custom.once[n] = <<i, replies[i].once[k]>>
    /\ \A m, n \in DOMAIN custom.once : m <= n => custom.once[m][1] <= custom.once[n][1]

\* So are the extensions.
AllExtensions(A) ==
    /\ \A n \in DOMAIN custom.exts :
          custom.exts[n] \in A /\ replies[custom.exts[n]].exts # "none"
    /\ \A i \in A : replies[i].exts # "none" => \E n \in DOMAIN custom.exts : custom.exts[n] = i
    /\ \A m, n \in DOMAIN custom.exts : m < n => custom.exts[m] < custom.exts[n]

NoObjection(A) == custom.renewable <=> (ctx.renewable /\ \A i \in A : replies[i].renew # FALSE)

\* What a request passes with is what its hooks said, in their order: the last
\* override of each field, the SANs of the last replacement and all additions since,
\* every once-scope in its own hook's namespace and no other, every extension, and
\* renewable only when the baseline is and no hook objects (apply_response).
LayeredInOrder ==
    outcome = "ok" =>
        /\ LastOverride(Consulted) /\ LastSans(Consulted)
        /\ AllScopes(Consulted) /\ AllExtensions(Consulted)
        /\ NoObjection(Consulted)
==============================================================================
