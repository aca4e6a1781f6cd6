---------------------------- MODULE LineageProofs ----------------------------
(***************************************************************************)
(* What holds of the hook pipeline, for every list of hooks, every request *)
(* and whatever the hooks reply: its verdict and its layers are exact.     *)
(* And, from that, what holds of a certificate and of every renewal and    *)
(* rekey of it, for every configuration, token, CSR and hook: its names    *)
(* and policy go back to its token, its template and the hooks; its mark   *)
(* is final.                                                               *)
(***************************************************************************)
EXTENDS Lineage, TLAPS, WellFoundedInduction

----------------------------------------------------------------------------
(* The hook pipeline *)


\* A reply that lets the request go on.
Passed(i) == /\ replies[i] # Absent
             /\ replies[i].allow # "deny"
             /\ replies[i].exts # "bad"

\* How far the pipeline is and why it stopped: the hooks before pos passed, and
\* granted is what they said; the one at pos is the reason of a failure.
Progress ==
    /\ \A i \in Consulted : i < pos => Passed(i)
    /\ granted <=> \E i \in Consulted : i < pos /\ replies[i].allow = "grant"
    /\ outcome = "running" => \A i \in Consulted : i >= pos => replies[i] = Absent
    /\ outcome = "ok" => pos > Len(hooks) /\ (ctx.authorized \/ granted)
    /\ outcome \in {"error", "bad_request"} => pos \in Consulted /\ ~Passed(pos)
    /\ outcome = "forbidden" =>
          \/ pos \in Consulted /\ replies[pos] # Absent /\ replies[pos].allow = "deny"
          \/ pos > Len(hooks) /\ ~ctx.authorized /\ ~granted

IInv == TypeOK /\ Progress

\* hook::run has been called for a request, with a list of hooks.
Ready == hooks \in Seq(Hook) /\ ctx \in Context /\ Opened

\* A pipeline begins with nobody asked.
LEMMA ReadyIInv == Ready => IInv
<1> SUFFICES ASSUME Ready PROVE IInv
    OBVIOUS
<1>1. hooks \in Seq(Hook) /\ ctx \in Context /\ Len(hooks) \in Nat
  BY DEF Ready
<1>2. custom \in [over : [Field -> Value \cup {Absent}], sans : SUBSET San,
                  exts : Seq(1..Len(hooks)), once : Seq((1..Len(hooks)) \X Scope),
                  renewable : BOOLEAN]
  BY <1>1 DEF Ready, Opened, Seed, Context
<1>3. TypeOK
  <2>1. pos \in 1..(Len(hooks) + 1)
    BY <1>1 DEF Ready, Opened
  <2>2. replies \in [1..Len(hooks) -> HookReply \cup {Absent}]
    BY DEF Ready, Opened
  <2> QED
    BY <1>1, <1>2, <2>1, <2>2 DEF Ready, Opened, TypeOK
<1>4. \A i \in Consulted : ~(i < pos) /\ replies[i] = Absent
  BY <1>1 DEF Ready, Opened, Consulted
<1>5. granted = FALSE /\ outcome = "running"
  BY DEF Ready, Opened
<1>6. Progress
  BY <1>4, <1>5 DEF Progress
<1> QED
  BY <1>3, <1>6 DEF IInv

\* The pipelines of this module run for a configured list and a possible request.
LEMMA InitReady == Init => Ready
BY HookAssumption DEF Init, Ready

\* Appending an element keeps the type of a sequence.
LEMMA AppendType == ASSUME NEW D, NEW s \in Seq(D), NEW d \in D PROVE Append(s, d) \in Seq(D)
  OBVIOUS

\* Layering a reply keeps the type of the customization.
LEMMA LayerType ==
    ASSUME TypeOK, NEW rep \in Replies, pos \in 1..Len(hooks)
    PROVE  Layer(custom, pos, rep) \in
              [over : [Field -> Value \cup {Absent}], sans : SUBSET San,
               exts : Seq(1..Len(hooks)), once : Seq((1..Len(hooks)) \X Scope),
               renewable : BOOLEAN]
<1>1. rep \in HookReply
  BY HookAssumption
<1> DEFINE O == Seq((1..Len(hooks)) \X Scope)
           over == [f \in Field |-> IF rep.over[f] = Absent THEN custom.over[f] ELSE rep.over[f]]
           sans == (IF rep.sans = Absent THEN custom.sans ELSE rep.sans) \cup rep.add
           exts == IF rep.exts = "none" THEN custom.exts ELSE Append(custom.exts, pos)
           mine == [n \in DOMAIN rep.once |-> <<pos, rep.once[n]>>]
<1>2. over \in [Field -> Value \cup {Absent}]
  BY <1>1 DEF TypeOK, HookReply
<1>3. sans \in SUBSET San
  BY <1>1 DEF TypeOK, HookReply
<1>4. exts \in Seq(1..Len(hooks))
  <2>1. custom.exts \in Seq(1..Len(hooks))
    BY DEF TypeOK
  <2> QED
    BY <2>1, AppendType
<1>5. custom.once \o mine \in O
  <2>1. rep.once \in Seq(Scope)
    BY <1>1 DEF HookReply
  <2>2. mine \in O
    BY <2>1
  <2>3. custom.once \in O
    BY DEF TypeOK
  <2> QED
    BY <2>2, <2>3
<1>6. custom.renewable \in BOOLEAN
  BY DEF TypeOK
<1>7. Layer(custom, pos, rep) = [over |-> over, sans |-> sans, exts |-> exts,
        once |-> custom.once \o mine, renewable |-> (custom.renewable /\ rep.renew # FALSE)]
  BY DEF Layer
<1> HIDE DEF over, sans, exts, mine, O
<1>8. (custom.renewable /\ rep.renew # FALSE) \in BOOLEAN
  OBVIOUS
<1> QED
  BY <1>2, <1>3, <1>4, <1>5, <1>7, <1>8 DEF O

\* Every step keeps the invariant: a reply at pos passes, or is the reason to stop.
LEMMA NextIInv == IInv /\ [Next]_vars => IInv'
<1> SUFFICES ASSUME IInv, [Next]_vars PROVE IInv'
    OBVIOUS
<1> USE DEF IInv
<1>0. hooks \in Seq(Hook) /\ Len(hooks) \in Nat /\ pos \in 1..(Len(hooks) + 1)
  BY DEF TypeOK
<1>1. CASE Skip
  <2>1. TypeOK'
    BY <1>0, <1>1 DEF Skip, TypeOK
  <2>2. Progress'
    BY <1>0, <1>1 DEF Skip, Progress, Passed, Consulted, applies_to
  <2> QED
    BY <2>1, <2>2
<1>2. CASE Fail
  <2>1. TypeOK'
    BY <1>2 DEF Fail, TypeOK
  <2>2. Progress'
    BY <1>0, <1>2 DEF Fail, Asking, Progress, Passed, Consulted, applies_to
  <2> QED
    BY <2>1, <2>2
<1>3. CASE Hang
  <2>1. TypeOK'
    BY <1>3 DEF Hang, TypeOK
  <2>2. Progress'
    BY <1>3 DEF Hang, Asking, Progress, Passed, Consulted, applies_to
  <2> QED
    BY <2>1, <2>2
<1>4. CASE Timeout
  <2>1. TypeOK'
    BY <1>4 DEF Timeout, TypeOK
  <2>2. Progress'
    BY <1>0, <1>4 DEF Timeout, Asking, Progress, Passed, Consulted, applies_to
  <2> QED
    BY <2>1, <2>2
<1>5. CASE Conclude
  <2>1. TypeOK'
    BY <1>5 DEF Conclude, TypeOK
  <2>2. Progress'
    BY <1>5 DEF Conclude, unauthorized_guard, Progress, Passed, Consulted, applies_to
  <2> QED
    BY <2>1, <2>2
<1>6. ASSUME NEW rep \in Replies, Answer(rep) PROVE IInv'
  <2>1. rep \in HookReply /\ rep # Absent /\ pos \in Consulted /\ pos \in 1..Len(hooks)
    BY <1>0, <1>6, HookAssumption DEF Answer, Asking, Consulted
  <2>2. replies' \in [1..Len(hooks) -> HookReply \cup {Absent}] /\ replies'[pos] = rep
    BY <2>1, <1>6 DEF Answer, TypeOK
  <2>3. \A i \in 1..Len(hooks) : i # pos => replies'[i] = replies[i]
    BY <2>1, <1>6 DEF Answer, TypeOK
  <2>4. Consulted' = Consulted /\ hooks' = hooks /\ ctx' = ctx /\ hung' = hung
    BY <1>6 DEF Answer, Consulted, applies_to
  <2>5. CASE rep.allow = "deny" \/ rep.exts = "bad"
    <3>1. pos' = pos /\ custom' = custom /\ granted' = granted
          /\ outcome' \in {"forbidden", "bad_request"}
      BY <2>5, <1>6 DEF Answer
    <3>2. TypeOK'
      BY <3>1, <2>2, <2>4 DEF TypeOK
    <3>3. /\ outcome' = "forbidden" => rep.allow = "deny"
          /\ outcome' = "bad_request" => rep.exts = "bad"
      BY <2>5, <1>6 DEF Answer
    <3>4. \A i \in Consulted : i < pos => replies'[i] = replies[i]
      BY <2>3, <1>0 DEF Consulted
    <3>5. \A i \in Consulted : i < pos' => Passed(i)'
      BY <3>1, <3>4 DEF Progress, Passed
    <3>6. granted' <=> \E i \in Consulted' : i < pos' /\ replies'[i].allow = "grant"
      <4>1. granted <=> \E i \in Consulted : i < pos /\ replies[i].allow = "grant"
        BY DEF Progress
      <4> QED
        BY <4>1, <3>1, <3>4, <2>4
    <3>7. Progress'
      BY <3>1, <3>3, <3>5, <3>6, <2>1, <2>2, <2>4 DEF Progress, Passed
    <3> QED
      BY <3>2, <3>7
  <2>6. CASE rep.allow # "deny" /\ rep.exts # "bad"
    <3>1. pos' = pos + 1 /\ custom' = Layer(custom, pos, rep) /\ outcome' = outcome
          /\ granted' = (granted \/ rep.allow = "grant") /\ outcome = "running"
      BY <2>6, <1>6 DEF Answer, Asking
    <3>2. TypeOK'
      BY <3>1, <2>1, <2>2, <2>4, <1>0, LayerType DEF TypeOK
    <3>3. \A i \in Consulted : i < pos' <=> i < pos \/ i = pos
      BY <3>1, <1>0 DEF Consulted
    <3>4. \A i \in Consulted : i < pos' => Passed(i)'
      BY <3>3, <2>1, <2>2, <2>3, <2>6 DEF Progress, Passed, Consulted
    <3>5. granted' <=> \E i \in Consulted : i < pos' /\ replies'[i].allow = "grant"
      <4>1. \A i \in Consulted : i < pos => replies'[i] = replies[i]
        BY <2>3, <1>0 DEF Consulted
      <4>2. granted <=> \E i \in Consulted : i < pos /\ replies[i].allow = "grant"
        BY DEF Progress
      <4>3. granted' <=> granted \/ rep.allow = "grant"
        BY <3>1
      <4> QED
        BY <4>1, <4>2, <4>3, <3>3, <2>1, <2>2
    <3>6. \A i \in Consulted : i >= pos' => replies'[i] = Absent
      BY <3>1, <2>3, <1>0 DEF Progress, Consulted
    <3>7. Progress'
      BY <3>1, <3>4, <3>5, <3>6, <2>4 DEF Progress
    <3> QED
      BY <3>2, <3>7
  <2> QED
    BY <2>5, <2>6
<1>7. CASE UNCHANGED vars
  BY <1>7 DEF vars, TypeOK, Progress, Passed, Consulted, applies_to
<1> QED
  BY <1>1, <1>2, <1>3, <1>4, <1>5, <1>6, <1>7 DEF Next

\* The state of a pipeline keeps its type, whatever the hooks reply (hook::run).
THEOREM TypeCorrect == Spec => []TypeOK
<1>1. IInv => TypeOK
  BY DEF IInv
<1> QED
  BY <1>1, InitReady, ReadyIInv, NextIInv, PTL DEF Spec

\* Wherever the pipeline stopped, its verdict is that of the replies.
LEMMA VerdictOfReplies == IInv => VerdictExact
<1> SUFFICES ASSUME IInv, outcome # "running"
             PROVE  outcome = "ok" <=>
                      /\ \A i \in Consulted : Passed(i)
                      /\ ctx.authorized \/ \E i \in Consulted : replies[i].allow = "grant"
    BY DEF VerdictExact, Passed
<1>1. pos > Len(hooks) => \A i \in Consulted : i < pos
  BY DEF IInv, TypeOK, Consulted
<1>2. CASE outcome = "ok"
  BY <1>1, <1>2 DEF IInv, Progress
<1>3. CASE outcome = "forbidden"
  BY <1>1, <1>3 DEF IInv, Progress, Passed
<1>4. CASE outcome \in {"error", "bad_request"}
  BY <1>4 DEF IInv, Progress
<1> QED
  BY <1>2, <1>3, <1>4 DEF IInv, TypeOK

\* A request passes exactly when every hook that applies to it replied and let it pass,
\* and its credential or one of those hooks authorized it (hook::run).
THEOREM VerdictsExact == Spec => []VerdictExact
BY InitReady, ReadyIInv, NextIInv, VerdictOfReplies, PTL DEF Spec

----------------------------------------------------------------------------
(* What passes with the request *)

Asked == {i \in Consulted : i < pos}

Layered ==
    /\ LastOverride(Asked) /\ LastSans(Asked)
    /\ AllScopes(Asked) /\ AllExtensions(Asked) /\ NoObjection(Asked)

\* Nothing is layered before the first reply.
LEMMA ReadyLayered == Ready => Layered
<1> SUFFICES ASSUME Ready PROVE Layered
    OBVIOUS
<1>1. Asked = {}
  BY DEF Ready, Opened, Asked, Consulted
<1>2. Added({}, 1) = {}
  BY DEF Added
<1> QED
  BY <1>1, <1>2 DEF Ready, Opened, Seed, Layered, LastOverride, LastSans, AllScopes, AllExtensions, NoObjection

\* Steps that neither layer a reply nor rewrite one that was layered.
LEMMA SameLayers ==
    ASSUME Layered, custom' = custom, ctx' = ctx, Asked' = Asked,
           \A i \in Asked : replies'[i] = replies[i]
    PROVE  Layered'
<1>1. LastOverride(Asked)'
  BY DEF Layered, LastOverride
<1>2. LastSans(Asked)'
  <2>1. \A i : Added(Asked, i)' = Added(Asked, i)
    BY DEF Added
  <2> QED
    BY <2>1 DEF Layered, LastSans
<1>3. AllScopes(Asked)'
  <2>1. \A c : ScopeOf(c, Asked) => c[1] \in Asked /\ ScopeOf(c, Asked)'
    BY DEF ScopeOf
  <2>2. \A n \in DOMAIN custom.once : ScopeOf(custom.once[n], Asked)'
    BY <2>1 DEF Layered, AllScopes
  <2>3. \A i \in Asked : \A k \in DOMAIN replies'[i].once :
          \E n \in DOMAIN custom.once : custom.once[n] = <<i, replies'[i].once[k]>>
    BY DEF Layered, AllScopes
  <2> QED
    BY <2>2, <2>3 DEF Layered, AllScopes
<1>4. AllExtensions(Asked)'
  BY DEF Layered, AllExtensions
<1>5. NoObjection(Asked)'
  BY DEF Layered, NoObjection
<1> QED
  BY <1>1, <1>2, <1>3, <1>4, <1>5 DEF Layered

\* The parts of a concatenation.
LEMMA ConcatParts ==
    ASSUME NEW D, NEW s \in Seq(D), NEW t \in Seq(D)
    PROVE  /\ DOMAIN (s \o t) = 1..(Len(s) + Len(t))
           /\ \A n \in 1..Len(s) : (s \o t)[n] = s[n]
           /\ \A n \in 1..Len(t) : (s \o t)[Len(s) + n] = t[n]
  OBVIOUS

\* A reply that passes is the last word on what it says, and leaves the rest as it is.
LEMMA OneMoreLayer ==
    ASSUME TypeOK, Layered, NEW rep \in HookReply, pos \in 1..Len(hooks),
           custom' = Layer(custom, pos, rep), ctx' = ctx,
           Asked' = Asked \cup {pos}, replies'[pos] = rep,
           \A i \in Asked : replies'[i] = replies[i]
    PROVE  Layered'
<1>0. pos \in Nat /\ 1 <= pos /\ \A i \in Asked : i \in Nat /\ i < pos
  BY DEF Asked, Consulted
\* The place of the reply, as a constant.
<1>p. PICK p \in Nat : p = pos
  BY <1>0
<1>1. LastOverride(Asked)'
  <2> SUFFICES ASSUME NEW f \in Field
               PROVE  \/ custom'.over[f] = Absent /\ \A i \in Asked' : replies'[i].over[f] = Absent
                      \/ \E i \in Asked' : /\ replies'[i].over[f] # Absent
                                           /\ custom'.over[f] = replies'[i].over[f]
                                           /\ \A j \in Asked' : j > i => replies'[j].over[f] = Absent
      BY DEF LastOverride
  <2>1. custom'.over[f] = IF rep.over[f] = Absent THEN custom.over[f] ELSE rep.over[f]
    BY DEF Layer
  <2>2. CASE rep.over[f] # Absent
    <3>1. \A j \in Asked' : ~(j > pos)
      BY <1>0
    <3> QED
      BY <2>1, <2>2, <3>1
  <2>3. CASE rep.over[f] = Absent
    <3>1. \/ custom.over[f] = Absent /\ \A i \in Asked : replies[i].over[f] = Absent
          \/ \E i \in Asked : /\ replies[i].over[f] # Absent
                              /\ custom.over[f] = replies[i].over[f]
                              /\ \A j \in Asked : j > i => replies[j].over[f] = Absent
      BY DEF Layered, LastOverride
    <3> QED
      BY <2>1, <2>3, <3>1
  <2> QED
    BY <2>2, <2>3
<1>2. LastSans(Asked)'
  <2>1. custom'.sans = (IF rep.sans = Absent THEN custom.sans ELSE rep.sans) \cup rep.add
    BY DEF Layer
  <2>2. \A i \in Nat : i <= pos => Added(Asked, i)' = Added(Asked, i) \cup rep.add
    <3> SUFFICES ASSUME NEW i \in Nat, i <= pos
                 PROVE  Added(Asked, i)' = Added(Asked, i) \cup rep.add
        OBVIOUS
    <3>1. {j \in Asked : j >= i}' = {j \in Asked : j >= i} \cup {pos}
      BY <1>0
    <3>2. \A j \in {k \in Asked : k >= i} : replies'[j].add = replies[j].add
      OBVIOUS
    <3> QED
      BY <3>1, <3>2 DEF Added
  <2>3. Added(Asked, pos) = {}
    <3>1. {j \in Asked : j >= pos} = {}
      BY <1>0
    <3> QED
      BY <3>1 DEF Added
  <2>4. CASE rep.sans # Absent
    <3>1. \A j \in Asked' : ~(j > p)
      BY <1>0, <1>p
    <3>2. Added(Asked, p)' = rep.add
      <4>1. p <= pos
        BY <1>p
      <4>2. Added(Asked, p)' = Added(Asked, p) \cup rep.add
        BY <4>1, <2>2
      <4>3. Added(Asked, p) = {}
        BY <2>3, <1>p
      <4> QED
        BY <4>2, <4>3
    <3>3. custom'.sans = replies'[p].sans \cup Added(Asked, p)'
      BY <2>1, <2>4, <3>2, <1>p
    <3>4. p \in Asked' /\ replies'[p].sans # Absent
      BY <2>4, <1>p
    <3> QED
      BY <3>1, <3>3, <3>4 DEF LastSans
  <2>5. CASE rep.sans = Absent
    <3>1. custom'.sans = custom.sans \cup rep.add
      BY <2>1, <2>5
    <3>2. CASE custom.sans = ctx.sans \cup Added(Asked, 1) /\ \A i \in Asked : replies[i].sans = Absent
      <4>1. custom'.sans = ctx'.sans \cup Added(Asked, 1)'
        <5>1. Added(Asked, 1)' = Added(Asked, 1) \cup rep.add
          BY <2>2, <1>0
        <5> QED
          BY <5>1, <3>1, <3>2
      <4>2. \A i \in Asked' : replies'[i].sans = Absent
        BY <3>2, <2>5
      <4> QED
        BY <4>1, <4>2 DEF LastSans
    <3>3. ASSUME NEW i \in Asked, replies[i].sans # Absent,
                 custom.sans = replies[i].sans \cup Added(Asked, i),
                 \A j \in Asked : j > i => replies[j].sans = Absent
          PROVE  LastSans(Asked)'
      <4>1. custom'.sans = replies'[i].sans \cup Added(Asked, i)'
        <5>0. i \in Nat /\ i <= pos
          BY <1>0
        <5>1. Added(Asked, i)' = Added(Asked, i) \cup rep.add
          BY <2>2, <5>0
        <5>2. replies'[i] = replies[i]
          OBVIOUS
        <5> QED
          BY <5>1, <5>2, <3>1, <3>3
      <4>2. \A j \in Asked' : j > i => replies'[j].sans = Absent
        BY <3>3, <2>5
      <4>3. replies'[i].sans # Absent /\ i \in Asked'
        BY <3>3
      <4> QED
        BY <4>1, <4>2, <4>3 DEF LastSans
    <3> QED
      BY <3>2, <3>3 DEF Layered, LastSans
  <2> QED
    BY <2>4, <2>5
<1>3. AllScopes(Asked)'
  <2> DEFINE mine == [n \in DOMAIN rep.once |-> <<pos, rep.once[n]>>]
             old == custom.once
  <2>1. rep.once \in Seq(Scope) /\ old \in Seq((1..Len(hooks)) \X Scope)
    BY DEF TypeOK, HookReply
  <2>2. mine \in Seq((1..Len(hooks)) \X Scope) /\ Len(mine) = Len(rep.once)
    BY <2>1
  <2>3. custom'.once = old \o mine
    BY DEF Layer
  <2>4. /\ DOMAIN (old \o mine) = 1..(Len(old) + Len(mine))
        /\ \A n \in 1..Len(old) : (old \o mine)[n] = old[n]
        /\ \A n \in 1..Len(mine) : (old \o mine)[Len(old) + n] = mine[n]
    BY <2>1, <2>2, ConcatParts
  <2>5. \A n \in 1..Len(mine) : mine[n] = <<pos, rep.once[n]>>
    BY <2>1, <2>2
  <2>6. DOMAIN old = 1..Len(old) /\ DOMAIN rep.once = 1..Len(mine) /\ Len(old) \in Nat /\ Len(mine) \in Nat
    BY <2>1, <2>2
  <2> HIDE DEF mine
  <2>7. \A n \in 1..(Len(old) + Len(mine)) :
          \/ n \in 1..Len(old) /\ custom'.once[n] = old[n]
          \/ n > Len(old) /\ n - Len(old) \in 1..Len(mine)
             /\ custom'.once[n] = <<pos, rep.once[n - Len(old)]>>
    <3> SUFFICES ASSUME NEW n \in 1..(Len(old) + Len(mine)), n \notin 1..Len(old)
                 PROVE  n > Len(old) /\ n - Len(old) \in 1..Len(mine)
                        /\ custom'.once[n] = <<pos, rep.once[n - Len(old)]>>
        BY <2>3, <2>4
    <3>1. n > Len(old) /\ n - Len(old) \in 1..Len(mine) /\ Len(old) + (n - Len(old)) = n
      BY <2>6
    <3> QED
      BY <3>1, <2>3, <2>4, <2>5
  <2>8. \A n \in 1..Len(old) : ScopeOf(old[n], Asked)
    BY <2>6 DEF Layered, AllScopes
  <2>9. \A c : ScopeOf(c, Asked) => ScopeOf(c, Asked)'
    BY DEF ScopeOf
  <2>10. \A k \in 1..Len(mine) : ScopeOf(<<p, rep.once[k]>>, Asked)'
    BY <2>6, <1>p DEF ScopeOf
  <2>11. \A n \in DOMAIN custom'.once : ScopeOf(custom.once[n], Asked)'
    BY <2>3, <2>4, <2>7, <2>8, <2>9, <2>10, <1>p
  <2>12. \A i \in Asked' : \A k \in DOMAIN replies'[i].once :
           \E n \in DOMAIN custom'.once : custom'.once[n] = <<i, replies'[i].once[k]>>
    <3>1. ASSUME NEW i \in Asked, NEW k \in DOMAIN replies'[i].once
          PROVE  \E n \in DOMAIN custom'.once : custom'.once[n] = <<i, replies'[i].once[k]>>
      <4>1. PICK n \in DOMAIN old : old[n] = <<i, replies[i].once[k]>>
        BY DEF Layered, AllScopes
      <4>2. n \in DOMAIN custom'.once /\ custom'.once[n] = old[n]
        BY <2>3, <2>4, <2>6
      <4> QED
        BY <4>1, <4>2
    <3>2. ASSUME NEW k \in DOMAIN rep.once
          PROVE  \E n \in DOMAIN custom'.once : custom'.once[n] = <<pos, rep.once[k]>>
      <4>1. Len(old) + k \in 1..(Len(old) + Len(mine))
        BY <2>6
      <4>2. custom'.once[Len(old) + k] = mine[k] /\ mine[k] = <<pos, rep.once[k]>>
        BY <2>3, <2>4, <2>5, <2>6
      <4>3. Len(old) + k \in DOMAIN custom'.once
        BY <4>1, <2>3, <2>4
      <4> QED
        BY <4>2, <4>3
    <3> QED
      BY <3>1, <3>2
  <2>13. \A n \in 1..Len(old) : old[n][1] \in Asked /\ old[n][1] < pos /\ old[n][1] \in Nat
    BY <2>8, <1>0 DEF ScopeOf
  <2>14. \A m, n \in DOMAIN custom'.once : m <= n => custom'.once[m][1] <= custom'.once[n][1]
    <3> SUFFICES ASSUME NEW m \in 1..(Len(old) + Len(mine)), NEW n \in 1..(Len(old) + Len(mine)), m <= n
                 PROVE  custom'.once[m][1] <= custom'.once[n][1]
        BY <2>3, <2>4
    <3>1. CASE n \in 1..Len(old)
      <4>1. m \in 1..Len(old)
        BY <3>1, <2>6
      <4>2. old[m][1] <= old[n][1]
        BY <4>1, <3>1, <2>6 DEF Layered, AllScopes
      <4> QED
        BY <4>1, <4>2, <3>1, <2>3, <2>4
    <3>2. CASE n \notin 1..Len(old)
      <4>1. custom'.once[n][1] = pos
        BY <3>2, <2>7
      <4>2. custom'.once[m][1] = pos \/ (m \in 1..Len(old) /\ custom'.once[m] = old[m])
        BY <2>7
      <4> QED
        BY <4>1, <4>2, <2>13, <1>0
    <3> QED
      BY <3>1, <3>2
  <2> QED
    BY <2>11, <2>12, <2>14 DEF AllScopes
<1>4. AllExtensions(Asked)'
  <2>1. custom.exts \in Seq(1..Len(hooks)) /\ Len(custom.exts) \in Nat
        /\ DOMAIN custom.exts = 1..Len(custom.exts)
    BY DEF TypeOK
  <2>2. custom'.exts = IF rep.exts = "none" THEN custom.exts ELSE Append(custom.exts, pos)
    BY DEF Layer
  <2>3. CASE rep.exts = "none"
    BY <2>2, <2>3 DEF Layered, AllExtensions
  <2>4. CASE rep.exts # "none"
    <3> DEFINE L == Len(custom.exts)
    <3>1. DOMAIN custom'.exts = 1..(L + 1) /\ custom'.exts[L + 1] = pos
          /\ \A n \in 1..L : custom'.exts[n] = custom.exts[n]
      BY <2>1, <2>2, <2>4
    <3>2. \A n \in 1..L : custom.exts[n] \in Asked /\ replies[custom.exts[n]].exts # "none"
      BY <2>1 DEF Layered, AllExtensions
    <3>3. \A n \in 1..(L + 1) : n \in 1..L \/ n = L + 1
      BY <2>1
    <3>4. \A n \in 1..(L + 1) : custom'.exts[n] \in Asked' /\ replies'[custom'.exts[n]].exts # "none"
      BY <3>1, <3>2, <3>3, <2>4
    <3>5. \A i \in Asked' : replies'[i].exts # "none" => \E n \in DOMAIN custom'.exts : custom'.exts[n] = i
      <4>1. \A i \in Asked : replies[i].exts # "none" => \E n \in 1..L : custom.exts[n] = i
        BY <2>1 DEF Layered, AllExtensions
      <4>2. 1..L \subseteq 1..(L + 1) /\ L + 1 \in 1..(L + 1)
        BY <2>1
      <4> QED
        BY <4>1, <4>2, <3>1
    <3>6. \A m, n \in 1..(L + 1) : m < n => custom'.exts[m] < custom'.exts[n]
      <4>1. \A m, n \in 1..L : m < n => custom.exts[m] < custom.exts[n]
        BY <2>1 DEF Layered, AllExtensions
      <4>2. \A m \in 1..L : custom.exts[m] < pos
        BY <3>2, <1>0
      <4>3. \A m, n \in 1..(L + 1) : m < n => m \in 1..L
        BY <2>1
      <4> QED
        BY <4>1, <4>2, <4>3, <3>1, <3>3
    <3> QED
      BY <3>1, <3>4, <3>5, <3>6 DEF AllExtensions
  <2> QED
    BY <2>3, <2>4
<1>5. NoObjection(Asked)'
  <2>1. custom'.renewable = (custom.renewable /\ rep.renew # FALSE)
    BY DEF Layer
  <2> QED
    BY <2>1 DEF Layered, NoObjection
<1> QED
  BY <1>1, <1>2, <1>3, <1>4, <1>5 DEF Layered

\* The layers of the hooks asked so far are in place after every step.
LEMMA NextLayered == IInv /\ Layered /\ [Next]_vars => Layered'
<1> SUFFICES ASSUME IInv, Layered, [Next]_vars PROVE Layered'
    OBVIOUS
<1>0. TypeOK /\ Len(hooks) \in Nat /\ pos \in 1..(Len(hooks) + 1)
  BY DEF IInv, TypeOK
<1>1. CASE Skip
  <2>1. Asked' = Asked
    BY <1>0, <1>1 DEF Skip, Asked, Consulted, applies_to
  <2> QED
    BY <1>1, <2>1, SameLayers DEF Skip
<1>2. CASE Fail \/ Hang \/ Timeout \/ Conclude \/ UNCHANGED vars
  <2>1. Asked' = Asked /\ custom' = custom /\ ctx' = ctx /\ replies' = replies
    BY <1>2 DEF Fail, Hang, Timeout, Conclude, vars, Asked, Consulted, applies_to
  <2> QED
    BY <2>1, SameLayers
<1>3. ASSUME NEW rep \in Replies, Answer(rep) PROVE Layered'
  <2>1. rep \in HookReply /\ pos \in Consulted /\ pos \in 1..Len(hooks)
    BY <1>0, <1>3, HookAssumption DEF Answer, Asking, Consulted
  <2>2. replies'[pos] = rep /\ \A i \in Asked : replies'[i] = replies[i]
    BY <2>1, <1>0, <1>3 DEF Answer, TypeOK, Asked, Consulted
  <2>3. Consulted' = Consulted /\ ctx' = ctx
    BY <1>3 DEF Answer, Consulted, applies_to
  <2>4. CASE rep.allow = "deny" \/ rep.exts = "bad"
    <3>1. pos' = pos /\ custom' = custom
      BY <2>4, <1>3 DEF Answer
    <3>2. Asked' = Asked
      BY <3>1, <2>3 DEF Asked
    <3> QED
      BY <3>1, <3>2, <2>2, <2>3, SameLayers
  <2>5. CASE rep.allow # "deny" /\ rep.exts # "bad"
    <3>1. pos' = pos + 1 /\ custom' = Layer(custom, pos, rep)
      BY <2>5, <1>3 DEF Answer
    <3>2. Asked' = Asked \cup {pos}
      BY <3>1, <2>1, <2>3, <1>0 DEF Asked, Consulted
    <3> QED
      BY <3>1, <3>2, <2>1, <2>2, <2>3, <1>0, OneMoreLayer
  <2> QED
    BY <2>4, <2>5
<1> QED
  BY <1>1, <1>2, <1>3 DEF Next

\* When the pipeline lets the request pass, every hook that applies has been asked.
LEMMA LayersOfReplies == IInv /\ Layered => LayeredInOrder
<1> SUFFICES ASSUME IInv, Layered, outcome = "ok"
             PROVE  /\ LastOverride(Consulted) /\ LastSans(Consulted)
                    /\ AllScopes(Consulted) /\ AllExtensions(Consulted)
                    /\ NoObjection(Consulted)
    BY DEF LayeredInOrder
<1>1. Asked = Consulted
  BY DEF IInv, TypeOK, Progress, Asked, Consulted
<1> QED
  BY <1>1 DEF Layered

\* A request passes with what its hooks said, layered in their order, whatever they are
\* and whatever they reply (apply_response).
THEOREM LayersExact == Spec => []LayeredInOrder
BY InitReady, ReadyIInv, NextIInv, ReadyLayered, NextLayered, LayersOfReplies, PTL DEF Spec


----------------------------------------------------------------------------
(* A line of certificates: the inductive invariant *)

\* A request between its checks and its answer.
Request ==
    [op : {"none", "sign", "renew", "rekey"}, key : Key \cup {Absent}, iss : Issuer \cup {Absent},
     sub : San \cup {Absent}, template : TemplateInfo \cup {Absent}, permitted : SUBSET San]

\* The type of what Lineage adds to the pipeline.
LineageTypeOK ==
    /\ server \in Servers \cup {Absent}
    /\ stage \in {"down", "idle", "hooks"}
    /\ req \in Request
    /\ cert \in Certificate \cup {Absent}
    /\ line.final \in BOOLEAN /\ line.reissues \in 0..MaxReissues

\* The configuration in force passed the checks of the start, and the pipeline has its hooks.
Hosted ==
    stage # "down" =>
        /\ server \in Servers /\ hooks = server.hooks
        /\ from_configs(server) /\ validate_provisioner_authorization(server) /\ TemplatesDefined(server)

\* Between two requests no pipeline has a verdict.
Quiet == stage # "hooks" => outcome = "running"

\* The pipeline of a token begins with names that it permits.
Signing ==
    stage = "hooks" /\ req.op = "sign" =>
        /\ cert = Absent
        /\ req.key \in Key /\ req.sub \in San /\ req.template \in TemplateInfo
        /\ ctx.sans \subseteq req.permitted

\* That of a reissue begins with a certificate that may be renewed, and with its names.
Reissuing ==
    stage = "hooks" /\ req.op # "sign" =>
        /\ cert # Absent /\ req.key \in Key /\ line.reissues < MaxReissues
        /\ ~is_marked_non_renewable(cert) /\ cert.exts["san"] # Garbage
        /\ ctx.sans = cert_sans(cert)

\* Whoever needs a grant has a hook to ask for it.
Grantable == stage = "hooks" /\ ~ctx.authorized => Consulted # {}

\* What is known of the certificate that the client holds.
Holding ==
    /\ cert = Absent => line = NoLine
    /\ cert # Absent =>
          cert.exts["san"] \in {Absent, Garbage} \cup [names : SUBSET (San \cup {Foreign}), critical : BOOLEAN]
    /\ NamesAccounted /\ PolicyKept /\ NonRenewableIsFinal /\ WellFormed

LInv ==
    /\ LineageTypeOK /\ IInv /\ Layered
    /\ Hosted /\ Quiet /\ Signing /\ Reissuing /\ Grantable /\ RoutingUnambiguous /\ Holding

----------------------------------------------------------------------------
(* The operators *)

\* A set of natural numbers that is not empty has a least element.
LEMMA LeastNumber ==
    ASSUME NEW T \in SUBSET Nat, T # {}
    PROVE  \E x \in T : \A y \in T : ~(y < x)
<1>1. \A a, b \in Nat : a < b => <<a, b>> \in OpToRel(<, Nat)
  BY Zenon DEF OpToRel
<1>2. PICK x \in T : \A y \in T : ~(<<y, x>> \in OpToRel(<, Nat))
  BY NatLessThanWellFounded, WFMin, Zenon
<1> QED
  BY <1>1, <1>2, Zenon

\* A set of places in a list that is not empty has a last one.
LEMMA LastPlace ==
    ASSUME NEW L \in Nat, NEW N \in SUBSET (1..L), N # {}
    PROVE  \E n \in N : \A m \in N : m <= n
<1> DEFINE T == {L - n : n \in N}
<1>1. \A n \in N : n \in Int /\ n <= L
  OBVIOUS
<1>2. T \in SUBSET Nat
  BY <1>1
<1>3. T # {}
  OBVIOUS
<1>4. PICK x \in T : \A y \in T : ~(y < x)
  <2> HIDE DEF T
  <2> QED
    BY <1>2, <1>3, LeastNumber
<1>5. PICK n \in N : x = L - n
  OBVIOUS
<1>6. \A m \in N : ~(L - m < L - n)
  BY <1>4, <1>5
<1> QED
  BY <1>6, <1>1

\* upsert_extension: an extension is what it was, or the value of one that is injected;
\* where none is injected it stays.
LEMMA UpsertedAt ==
    ASSUME NEW L \in Nat, NEW inj, DOMAIN inj = 1..L, NEW exts, NEW o \in Oid
    PROVE  \/ Upserted(exts, inj)[o] = exts[o]
           \/ \E n \in DOMAIN inj : inj[n].oid = o /\ Upserted(exts, inj)[o] = inj[n].val
<1> DEFINE N == {n \in DOMAIN inj : inj[n].oid = o}
           last == CHOOSE n \in N : \A m \in N : m <= n
<1>1. Upserted(exts, inj)[o] = IF N = {} THEN exts[o] ELSE inj[last].val
  BY DEF Upserted
<1>2. CASE N = {}
  BY <1>1, <1>2
<1>3. CASE N # {}
  <2>1. N \in SUBSET (1..L)
    OBVIOUS
  <2>2. \E n \in N : \A m \in N : m <= n
    <3> HIDE DEF N
    <3> QED
      BY <1>3, <2>1, LastPlace
  <2>3. last \in N
    <3> HIDE DEF N
    <3> QED
      BY <2>2
  <2>4. Upserted(exts, inj)[o] = inj[last].val
    BY <1>1, <1>3
  <2> HIDE DEF last
  <2> QED
    BY <2>3, <2>4
<1> QED
  BY <1>2, <1>3

\* Sealing writes the three extensions of the CA and leaves the others.
LEMMA SealedAt ==
    ASSUME NEW exts, DOMAIN exts = Oid
    PROVE  /\ DOMAIN Sealed(exts) = Oid
           /\ \A o \in Oid \ Reserved : Sealed(exts)[o] = exts[o]
           /\ Sealed(exts)["ski"] = req.key /\ Sealed(exts)["aki"] = CaKey
           /\ Sealed(exts)["marker"] = IF custom.renewable THEN Absent ELSE [renewable |-> FALSE]
BY DEF Sealed, Oid, Reserved

\* Every extension of a sealed certificate is what was built, what a hook injected or
\* what the CA writes.
LEMMA SealedType ==
    ASSUME NEW L \in Nat, NEW inj \in [1..L -> Injectable],
           NEW exts \in [Oid -> ExtensionValue \cup {Absent}], req.key \in Key
    PROVE  /\ Sealed(Upserted(exts, inj)) \in [Oid -> ExtensionValue \cup {Absent}]
           /\ \A o \in Oid \ Reserved :
                 \/ Sealed(Upserted(exts, inj))[o] = exts[o]
                 \/ \E n \in DOMAIN inj : inj[n].oid = o /\ Sealed(Upserted(exts, inj))[o] = inj[n].val
           /\ Sealed(Upserted(exts, inj))["ski"] = req.key
           /\ Sealed(Upserted(exts, inj))["aki"] = CaKey
           /\ Sealed(Upserted(exts, inj))["marker"] =
                 IF custom.renewable THEN Absent ELSE [renewable |-> FALSE]
<1> DEFINE U == Upserted(exts, inj)
           S == Sealed(U)
<1>1. DOMAIN U = Oid
  BY DEF Upserted
<1>2. \A o \in Oid : U[o] = exts[o] \/ \E n \in DOMAIN inj : inj[n].oid = o /\ U[o] = inj[n].val
  BY UpsertedAt
<1>3. \A n \in DOMAIN inj : inj[n].val \in ExtensionValue
  BY LineageAssumption
<1>4. \A o \in Oid : U[o] \in ExtensionValue \cup {Absent}
  BY <1>2, <1>3
<1> HIDE DEF U
<1>5. /\ DOMAIN S = Oid
      /\ \A o \in Oid \ Reserved : S[o] = U[o]
      /\ S["ski"] = req.key /\ S["aki"] = CaKey
      /\ S["marker"] = IF custom.renewable THEN Absent ELSE [renewable |-> FALSE]
  BY <1>1, SealedAt
<1>6. req.key \in ExtensionValue /\ CaKey \in ExtensionValue /\ [renewable |-> FALSE] \in ExtensionValue
  BY DEF ExtensionValue
<1>7. U \in [Oid -> ExtensionValue \cup {Absent}]
  BY <1>4 DEF U, Upserted
<1>8. S \in [Oid -> ExtensionValue \cup {Absent}]
  BY <1>6, <1>7 DEF Sealed, Oid
<1> QED
  BY <1>2, <1>5, <1>8 DEF U, Reserved

\* The pipeline of a request that begins is in order.
LEMMA BeginInOrder ==
    ASSUME NEW c \in Context, NEW hs \in Seq(Hook), Begin(c, hs)
    PROVE  IInv' /\ Layered' /\ hooks' = hs /\ ctx' = c /\ outcome' = "running"
<1>1. Ready'
  BY DEF Begin, Ready, Opened
<1>2. IInv' /\ Layered'
  BY <1>1, ReadyIInv, ReadyLayered, PTL
<1> QED
  BY <1>2 DEF Begin

----------------------------------------------------------------------------
(* The start, and the requests up to their hooks *)

\* Before the first start there is no server and no certificate.
LEMMA InitLInv == LineageInit => LInv
<1> SUFFICES ASSUME LineageInit PROVE LInv
    OBVIOUS
<1>1. Ready
  BY LineageAssumption DEF LineageInit, Ready, NoContext, Context
<1>2. IInv /\ Layered
  BY <1>1, ReadyIInv, ReadyLayered
<1>3. req \in Request
  BY DEF LineageInit, NoRequest, Request
<1>4. stage = "down" /\ cert = Absent /\ line = NoLine /\ server = Absent /\ outcome = "running"
  BY DEF LineageInit, Opened
<1>5. LineageTypeOK
  BY <1>3, <1>4, LineageAssumption DEF LineageTypeOK, NoLine
<1>6. Holding
  BY <1>4 DEF Holding, NamesAccounted, PolicyKept, NonRenewableIsFinal, WellFormed
<1> QED
  BY <1>2, <1>4, <1>5, <1>6
     DEF LInv, Hosted, Quiet, Signing, Reissuing, Grantable, RoutingUnambiguous

\* Nothing changes for the client while a server starts or a request is on its way.
LEMMA SameHolding ==
    ASSUME Holding, UNCHANGED <<cert, line>>
    PROVE  Holding'
BY DEF Holding, NamesAccounted, PolicyKept, NonRenewableIsFinal, WellFormed

\* A server starts with a configuration that passed its checks.
LEMMA BuildLInv ==
    ASSUME LInv, NEW s \in Servers, build_service(s)
    PROVE  LInv'
<1>1. s.hooks \in Seq(Hook)
  BY LineageAssumption DEF Server
<1>2. NoContext \in Context
  BY DEF NoContext, Context
<1>3. IInv' /\ Layered' /\ hooks' = s.hooks /\ outcome' = "running"
  BY <1>1, <1>2, BeginInOrder DEF build_service
<1>4. stage' = "idle" /\ server' = s /\ cert' = cert /\ line' = line /\ req' = NoRequest
  BY DEF build_service
<1>5. LineageTypeOK'
  BY <1>4 DEF LInv, LineageTypeOK, NoRequest, Request
<1>6. Hosted'
  <2>1. from_configs(s) /\ validate_provisioner_authorization(s) /\ TemplatesDefined(s)
    BY DEF build_service
  <2> QED
    BY <1>3, <1>4, <2>1 DEF Hosted
<1>7. Holding'
  BY <1>4, SameHolding DEF LInv
<1> QED
  BY <1>3, <1>4, <1>5, <1>6, <1>7
     DEF LInv, Quiet, Signing, Reissuing, Grantable, RoutingUnambiguous

\* The routing key belongs to one provisioner of a server that started.
LEMMA RoutedAt ==
    ASSUME server \in Server, from_configs(server), NEW t, Routed(t) # Absent
    PROVE  \E i \in DOMAIN server.provisioners :
              /\ Routed(t) = server.provisioners[i]
              /\ \A j \in DOMAIN server.provisioners :
                    expected_issuer(server.provisioners[j]) = t.iss => j = i
<1> DEFINE D == DOMAIN server.provisioners
           I == {i \in D : expected_issuer(server.provisioners[i]) = t.iss}
           first == CHOOSE i \in I : \A j \in I : i <= j
<1>1. \A i \in D : i \in Nat
  BY DEF Server
<1>2. I # {} /\ Routed(t) = server.provisioners[first]
  BY DEF Routed
<1>3. PICK i \in I : TRUE
  BY <1>2
<1>4. \A j \in I : j = i
  BY <1>3 DEF from_configs
<1>5. \A j \in I : i <= j
  BY <1>1, <1>4
<1>6. first \in I
  <2> HIDE DEF I
  <2> QED
    BY <1>3, <1>5
<1>7. first = i
  BY <1>4, <1>6
<1> HIDE DEF first
<1> QED
  BY <1>2, <1>3, <1>4, <1>7

\* The template of a token is one that the configuration defines, or the fallback.
LEMMA ResolvedTemplate ==
    ASSUME server \in Server, TemplatesDefined(server), NEW p \in Configured(server),
           p \in ProvisionerConfig
    PROVE  resolve_template(p) \in TemplateInfo
<1> DEFINE t == Or(p.template, server.default_template)
<1>1. PICK v \in Value : v # Empty
  BY LineageAssumption
<1>2. FallbackTemplate \in TemplateInfo
  BY <1>1 DEF FallbackTemplate, TemplateInfo
<1>3. p.template \in Template \cup {Absent} /\ server.default_template \in Template \cup {Absent}
  BY DEF ProvisionerConfig, Server
<1>4. CASE t = Absent
  BY <1>2, <1>4 DEF resolve_template
<1>5. CASE t # Absent
  <2>1. t \in {p.template, server.default_template} /\ t \in Template
    BY <1>3, <1>5 DEF Or
  <2>2. server.templates[t] # Absent
    BY <2>1, <1>5 DEF TemplatesDefined
  <2>3. server.templates[t] \in TemplateInfo
    BY <2>1, <2>2 DEF Server
  <2> QED
    BY <1>5, <2>3 DEF resolve_template
<1> QED
  BY <1>4, <1>5

\* A token begins a request with names it permits, under the one provisioner that
\* answers to it, with a hook to grant what that one does not.
LEMMA SignLInv ==
    ASSUME LInv, NEW t \in Tokens, NEW c \in Csrs, Sign(t, c)
    PROVE  LInv'
<1> DEFINE prov == Routed(t)
           auth == effective_authorized(prov)
           names == EffectiveSans(t, c, prov)
           cx == [authorized |-> auth, provisioner |-> prov.name, sans |-> names, renewable |-> t.renew]
           permitted == IF auth THEN allowed_sans(t) ELSE requested_sans(c)
<1>1. stage = "idle" /\ cert = Absent /\ prov # Absent /\ SansPermitted(t, c, prov)
      /\ Begin(cx, hooks) /\ stage' = "hooks" /\ UNCHANGED <<server, cert, line>>
  BY DEF Sign
<1>2. req' = [op |-> "sign", key |-> c.key, iss |-> t.iss, sub |-> t.sub,
              template |-> resolve_template(prov), permitted |-> permitted]
  BY DEF Sign
<1>3. server \in Servers /\ server \in Server /\ hooks = server.hooks /\ from_configs(server)
      /\ validate_provisioner_authorization(server) /\ TemplatesDefined(server)
  BY <1>1, LineageAssumption DEF LInv, Hosted
<1>4. PICK i \in DOMAIN server.provisioners :
          /\ prov = server.provisioners[i]
          /\ \A j \in DOMAIN server.provisioners :
                expected_issuer(server.provisioners[j]) = t.iss => j = i
  BY <1>1, <1>3, RoutedAt
<1>5. prov \in Configured(server) /\ prov \in ProvisionerConfig
  BY <1>3, <1>4 DEF Configured, Server
<1>6. auth \in BOOLEAN
  BY <1>5 DEF effective_authorized, Or, ProvisionerConfig
<1>7. /\ t \in Token /\ c \in Csr
      /\ t.sub \in San /\ t.sans \subseteq San /\ t.iss \in Issuer /\ t.renew \in BOOLEAN /\ c.key \in Key
      /\ requested_sans(c) \in SUBSET San /\ allowed_sans(t) \in SUBSET San
  BY LineageAssumption DEF Token, Csr, requested_sans, allowed_sans
<1>8. names \in SUBSET San /\ permitted \in SUBSET San /\ names \subseteq permitted
  <2>1. CASE auth
    BY <2>1, <1>1, <1>7 DEF EffectiveSans, SansPermitted
  <2>2. CASE ~auth
    BY <2>2, <1>7 DEF EffectiveSans
  <2> QED
    BY <2>1, <2>2
<1>9. cx \in Context
  BY <1>5, <1>6, <1>7, <1>8 DEF Context, ProvisionerConfig
<1>10. hooks \in Seq(Hook)
  BY <1>3 DEF Server
<1>11. resolve_template(prov) \in TemplateInfo
  BY <1>3, <1>5, ResolvedTemplate
<1> HIDE DEF prov, auth, names, permitted
<1>12. ctx'.authorized = auth /\ ctx'.provisioner = prov.name /\ ctx'.sans = names
       /\ hooks' = hooks /\ outcome' = "running" /\ IInv' /\ Layered'
  <2>1. IInv' /\ Layered' /\ hooks' = hooks /\ ctx' = cx /\ outcome' = "running"
    <3> HIDE DEF cx
    <3> QED
      BY <1>1, <1>9, <1>10, BeginInOrder
  <2> QED
    BY <2>1
<1>13. LineageTypeOK'
  <2>1. req' \in Request
    BY <1>2, <1>7, <1>8, <1>11 DEF Request
  <2> QED
    BY <1>1, <2>1 DEF LInv, LineageTypeOK
<1>14. Hosted'
  BY <1>1, <1>3, <1>12 DEF Hosted, from_configs, validate_provisioner_authorization, TemplatesDefined, Configured
<1>15. Quiet' /\ Signing' /\ Reissuing'
  BY <1>1, <1>2, <1>7, <1>8, <1>11, <1>12 DEF Quiet, Signing, Reissuing
<1>16. Grantable'
  <2>1. ASSUME ~auth PROVE \E k \in 1..Len(hooks) : hooks[k].provisioners = {} \/ prov.name \in hooks[k].provisioners
    <3>1. DOMAIN hooks = 1..Len(hooks)
      BY <1>10
    <3> QED
      BY <2>1, <3>1, <1>3, <1>5 DEF validate_provisioner_authorization, auth
  <2>2. ASSUME ~auth PROVE Consulted' # {}
    BY <2>1, <2>2, <1>12 DEF Consulted, applies_to
  <2> QED
    BY <2>2, <1>12 DEF Grantable
<1>17. RoutingUnambiguous'
  <2>1. ASSUME NEW p \in Configured(server), expected_issuer(p) = t.iss PROVE p = prov
    BY <2>1, <1>4 DEF Configured
  <2>2. Configured(server)' = Configured(server) /\ req'.iss = t.iss
    BY <1>1, <1>2 DEF Configured
  <2> QED
    BY <2>1, <2>2, <1>12 DEF RoutingUnambiguous, auth
<1>18. Holding'
  BY <1>1, SameHolding DEF LInv
<1> QED
  BY <1>12, <1>13, <1>14, <1>15, <1>16, <1>17, <1>18 DEF LInv

\* A renewal or rekey begins with the names of the certificate that it replaces.
LEMMA ReissueLInv ==
    ASSUME LInv, NEW op \in {"renew", "rekey"}, NEW key \in Key, Reissue(op, key)
    PROVE  LInv'
<1> DEFINE cx == [authorized |-> TRUE, provisioner |-> Absent, sans |-> cert_sans(cert), renewable |-> TRUE]
<1>1. stage = "idle" /\ cert # Absent /\ line.reissues < MaxReissues /\ stage' = "hooks"
      /\ ~is_marked_non_renewable(cert) /\ cert.exts["san"] # Garbage
      /\ Begin(cx, hooks) /\ UNCHANGED <<server, cert, line>>
      /\ req' = [NoRequest EXCEPT !.op = op, !.key = key]
  BY DEF Reissue
<1>2. cert_sans(cert) \in SUBSET San
  BY <1>1 DEF LInv, Holding, cert_sans
<1>3. cx \in Context
  BY <1>2 DEF Context
<1>4. hooks \in Seq(Hook)
  BY DEF LInv, IInv, TypeOK
<1>5. ctx'.authorized = TRUE /\ ctx'.sans = cert_sans(cert)
      /\ hooks' = hooks /\ outcome' = "running" /\ IInv' /\ Layered'
  <2>1. IInv' /\ Layered' /\ hooks' = hooks /\ ctx' = cx /\ outcome' = "running"
    <3> HIDE DEF cx
    <3> QED
      BY <1>1, <1>3, <1>4, BeginInOrder
  <2> QED
    BY <2>1
<1>6. req' \in Request /\ req'.op # "sign" /\ req'.key = key
  BY <1>1 DEF NoRequest, Request
<1>7. LineageTypeOK'
  BY <1>1, <1>6 DEF LInv, LineageTypeOK
<1>8. Hosted'
  <2>1. server \in Servers /\ hooks = server.hooks /\ from_configs(server)
        /\ validate_provisioner_authorization(server) /\ TemplatesDefined(server)
    BY <1>1 DEF LInv, Hosted
  <2>2. server' = server /\ hooks' = hooks
    BY <1>1, <1>5
  <2> QED
    BY <2>1, <2>2
       DEF Hosted, from_configs, validate_provisioner_authorization, TemplatesDefined, Configured
<1>9. Quiet' /\ Signing' /\ Grantable' /\ RoutingUnambiguous'
  BY <1>1, <1>5, <1>6 DEF Quiet, Signing, Grantable, RoutingUnambiguous
<1>10. Reissuing'
  BY <1>1, <1>5, <1>6 DEF Reissuing
<1>11. Holding'
  BY <1>1, SameHolding DEF LInv
<1> QED
  BY <1>5, <1>7, <1>8, <1>9, <1>10, <1>11 DEF LInv

\* While its hooks are asked, a request stays what it is.
LEMMA PipelineLInv ==
    ASSUME LInv, Pipeline
    PROVE  LInv'
<1>1. stage = "hooks" /\ Next /\ UNCHANGED lineVars
  BY DEF Pipeline
<1>2. UNCHANGED <<server, stage, req, cert, line>>
  BY <1>1 DEF lineVars
<1>3. hooks' = hooks /\ ctx' = ctx
  BY <1>1 DEF Next, Skip, Fail, Hang, Timeout, Conclude, Answer
<1>4. IInv' /\ Layered'
  BY <1>1, NextIInv, NextLayered DEF LInv
<1>5. Consulted' = Consulted
  BY <1>3 DEF Consulted, applies_to
<1>6. LineageTypeOK'
  BY <1>2 DEF LInv, LineageTypeOK
<1>7. Hosted'
  BY <1>2, <1>3 DEF LInv, Hosted, from_configs, validate_provisioner_authorization, TemplatesDefined, Configured
<1>8. Quiet' /\ Signing' /\ Reissuing' /\ Grantable' /\ RoutingUnambiguous'
  BY <1>1, <1>2, <1>3, <1>5
     DEF LInv, Quiet, Signing, Reissuing, Grantable, RoutingUnambiguous, Configured
<1>9. Holding'
  BY <1>2, SameHolding DEF LInv
<1> QED
  BY <1>4, <1>6, <1>7, <1>8, <1>9 DEF LInv

----------------------------------------------------------------------------
(* The certificate *)

\* The policy in `exts` is that of a template, or of what hooks told.
Based(exts, template, told) ==
    /\ exts["bc"] = [ca |-> template.is_ca] \/ <<"bc", exts["bc"]>> \in told
    /\ exts["ku"] = UsageExtension(template.ku) \/ <<"ku", exts["ku"]>> \in told
    /\ exts["eku"] = UsageExtension(template.eku) \/ <<"eku", exts["eku"]>> \in told
    /\ exts["other"] = Absent \/ <<"other", exts["other"]>> \in told

\* A request passes when every hook that applies has replied.
LEMMA AllReplied ==
    ASSUME IInv, outcome = "ok"
    PROVE  \A i \in Consulted : replies[i] \in HookReply
<1>1. \A i \in Consulted : i < pos
  BY DEF IInv, TypeOK, Progress, Consulted
<1>2. \A i \in Consulted : replies[i] # Absent
  BY <1>1 DEF IInv, Progress, Passed
<1> QED
  BY <1>2 DEF IInv, TypeOK, Consulted

\* Every name the pipeline ends with was there before it or is told by a hook.
LEMMA NamesTold ==
    ASSUME IInv, Layered, outcome = "ok", NEW inj
    PROVE  custom.sans \subseteq ctx.sans \cup ToldNames(inj)
<1>1. \A i \in Consulted : replies[i].add \subseteq ToldNames(inj)
  BY Zenon DEF ToldNames
<1>2. \A i : Added(Consulted, i) \subseteq ToldNames(inj)
  BY <1>1 DEF Added
<1>3. \A i \in Consulted : replies[i].sans # Absent => replies[i].sans \subseteq ToldNames(inj)
  BY Zenon DEF ToldNames
<1>4. LastSans(Consulted)
  BY LayersOfReplies DEF LayeredInOrder
<1>5. \/ custom.sans = ctx.sans \cup Added(Consulted, 1)
      \/ \E i \in Consulted : replies[i].sans # Absent /\ custom.sans = replies[i].sans \cup Added(Consulted, i)
  BY <1>4 DEF LastSans
<1> QED
  BY <1>2, <1>3, <1>5

\* Every usage the pipeline ends with is told by a hook.
LEMMA UsagesTold ==
    ASSUME IInv, Layered, outcome = "ok", NEW inj
    PROVE  /\ custom.over["key_usage"] # Absent =>
                 <<"ku", UsageExtension(custom.over["key_usage"])>> \in ToldValues(inj)
           /\ custom.over["extended_key_usage"] # Absent =>
                 <<"eku", UsageExtension(custom.over["extended_key_usage"])>> \in ToldValues(inj)
<1>1. LastOverride(Consulted)
  BY LayersOfReplies DEF LayeredInOrder
<1>2. \A f \in Field : custom.over[f] # Absent =>
          custom.over[f] \in {replies[i].over[f] : i \in Consulted} \ {Absent}
  BY <1>1 DEF LastOverride
<1>3. "key_usage" \in Field /\ "extended_key_usage" \in Field
  BY LineageAssumption
<1> QED
  BY <1>2, <1>3 DEF ToldValues

\* What the certificate of a token is built from: the names and the policy it may have.
LEMMA IssueBase ==
    ASSUME LInv, stage = "hooks", req.op = "sign", outcome = "ok", NEW inj
    PROVE  \E cn \in Value \cup San, base \in [Oid -> ExtensionValue \cup {Absent}] :
              /\ issue(inj) = [subject |-> cn, key |-> req.key, exts |-> Sealed(Upserted(base, inj))]
              /\ base["san"] = subject_alt_name_extension(custom.sans, cn = Empty)
              /\ Based(base, req.template, ToldValues(inj))
<1> DEFINE t == req.template
           cn == IF t.set_common_name THEN Override("subject_common_name", req.sub) ELSE Empty
           base == [o \in Oid |->
                      CASE o = "bc"  -> [ca |-> t.is_ca]
                        [] o = "ku"  -> UsageExtension(Override("key_usage", t.ku))
                        [] o = "eku" -> UsageExtension(Override("extended_key_usage", t.eku))
                        [] o = "san" -> subject_alt_name_extension(custom.sans, cn = Empty)
                        [] OTHER -> Absent]
<1>1. req.sub \in San /\ t.is_ca \in BOOLEAN /\ t.ku \in Value /\ t.eku \in Value
  BY DEF LInv, Signing, TemplateInfo
<1>2. custom.sans \in SUBSET San /\ \A f \in Field : custom.over[f] \in Value \cup {Absent}
  BY DEF LInv, IInv, TypeOK
<1>3. {"subject_common_name", "key_usage", "extended_key_usage"} \subseteq Field /\ Empty \in Value
  BY LineageAssumption
<1>4. cn \in Value \cup San
  BY <1>1, <1>2, <1>3 DEF Override, Or
<1>5. issue(inj) = [subject |-> cn, key |-> req.key, exts |-> Sealed(Upserted(base, inj))]
  BY DEF issue
<1> HIDE DEF cn
<1>6. base["bc"] = [ca |-> t.is_ca]
  BY DEF Oid
<1>7. base["ku"] = UsageExtension(Override("key_usage", t.ku))
  BY DEF Oid
<1>8. base["eku"] = UsageExtension(Override("extended_key_usage", t.eku))
  BY DEF Oid
<1>9. base["san"] = subject_alt_name_extension(custom.sans, cn = Empty)
  BY DEF Oid
<1>10. \A o \in Reserved \cup {"other"} : base[o] = Absent
  BY DEF Oid, Reserved
<1>11. [ca |-> t.is_ca] \in ExtensionValue
  BY <1>1 DEF ExtensionValue
<1>12. UsageExtension(Override("key_usage", t.ku)) \in ExtensionValue \cup {Absent}
  BY <1>1, <1>2, <1>3 DEF ExtensionValue, UsageExtension, Override, Or
<1>13. UsageExtension(Override("extended_key_usage", t.eku)) \in ExtensionValue \cup {Absent}
  BY <1>1, <1>2, <1>3 DEF ExtensionValue, UsageExtension, Override, Or
<1>14. subject_alt_name_extension(custom.sans, cn = Empty) \in ExtensionValue \cup {Absent}
  BY <1>2 DEF ExtensionValue, subject_alt_name_extension
<1>15. DOMAIN base = Oid /\ base = [o \in Oid |-> base[o]]
  OBVIOUS
<1> HIDE DEF base
<1>16. \A o \in Oid : base[o] \in ExtensionValue \cup {Absent}
  BY <1>6, <1>7, <1>8, <1>9, <1>10, <1>11, <1>12, <1>13, <1>14 DEF Oid, Reserved
<1>17. base \in [Oid -> ExtensionValue \cup {Absent}]
  BY <1>15, <1>16
<1>18. Based(base, t, ToldValues(inj))
  <2>1. base["ku"] = UsageExtension(t.ku) \/ <<"ku", base["ku"]>> \in ToldValues(inj)
    BY <1>7, UsagesTold DEF LInv, Override, Or
  <2>2. base["eku"] = UsageExtension(t.eku) \/ <<"eku", base["eku"]>> \in ToldValues(inj)
    BY <1>8, UsagesTold DEF LInv, Override, Or
  <2> QED
    BY <2>1, <2>2, <1>6, <1>10 DEF Based
<1> QED
  BY <1>4, <1>5, <1>9, <1>17, <1>18

\* What a reissued certificate is built from: the names and the policy of the previous
\* one, and what the hooks said on top of it.
LEMMA ReissueBase ==
    ASSUME LInv, stage = "hooks", req.op # "sign", outcome = "ok", NEW inj
    PROVE  \E cn \in Value \cup San, base \in [Oid -> ExtensionValue \cup {Absent}] :
              /\ reissue(inj) = [subject |-> cn, key |-> req.key, exts |-> Sealed(Upserted(base, inj))]
              /\ base["san"] = subject_alt_name_extension(custom.sans, cn = Empty)
              /\ Based(base, line.template, line.values \cup ToldValues(inj))
<1> DEFINE cn == Override("subject_common_name", cert.subject)
           ku == IF custom.over["key_usage"] = Absent THEN cert.exts["ku"]
                 ELSE UsageExtension(custom.over["key_usage"])
           eku == IF custom.over["extended_key_usage"] = Absent THEN cert.exts["eku"]
                  ELSE UsageExtension(custom.over["extended_key_usage"])
           san == subject_alt_name_extension(custom.sans, cn = Empty)
           base == [cert.exts EXCEPT !["san"] = san, !["ku"] = ku, !["eku"] = eku]
<1>1. cert \in Certificate /\ cert # Absent
  BY DEF LInv, LineageTypeOK, Reissuing
<1>2. cert.subject \in Value \cup San /\ cert.exts \in [Oid -> ExtensionValue \cup {Absent}]
  BY <1>1 DEF Certificate
<1>3. custom.sans \in SUBSET San /\ \A f \in Field : custom.over[f] \in Value \cup {Absent}
  BY DEF LInv, IInv, TypeOK
<1>4. {"subject_common_name", "key_usage", "extended_key_usage"} \subseteq Field
  BY LineageAssumption
<1>5. cn \in Value \cup San
  BY <1>2, <1>3, <1>4 DEF Override, Or
<1>6. reissue(inj) = [subject |-> cn, key |-> req.key, exts |-> Sealed(Upserted(base, inj))]
  BY DEF reissue
<1> HIDE DEF cn
<1>7. san \in ExtensionValue \cup {Absent}
  BY <1>3 DEF ExtensionValue, subject_alt_name_extension
<1>8. ku \in ExtensionValue \cup {Absent} /\ eku \in ExtensionValue \cup {Absent}
  <2>1. cert.exts["ku"] \in ExtensionValue \cup {Absent} /\ cert.exts["eku"] \in ExtensionValue \cup {Absent}
    BY <1>2 DEF Oid
  <2>2. custom.over["key_usage"] \in Value \cup {Absent} /\ custom.over["extended_key_usage"] \in Value \cup {Absent}
    BY <1>3, <1>4
  <2> QED
    BY <2>1, <2>2 DEF ExtensionValue, UsageExtension
<1>9. /\ ku = cert.exts["ku"] \/ <<"ku", ku>> \in ToldValues(inj)
      /\ eku = cert.exts["eku"] \/ <<"eku", eku>> \in ToldValues(inj)
  BY UsagesTold DEF LInv
<1>10. Based(cert.exts, line.template, line.values)
  BY <1>1 DEF LInv, Holding, PolicyKept, Based
<1> HIDE DEF ku, eku, san
<1>11. base \in [Oid -> ExtensionValue \cup {Absent}]
  BY <1>2, <1>7, <1>8 DEF Oid
<1>12. base["san"] = san /\ base["ku"] = ku /\ base["eku"] = eku
       /\ base["bc"] = cert.exts["bc"] /\ base["other"] = cert.exts["other"]
  BY <1>2 DEF Oid
<1> HIDE DEF base
<1>13. Based(base, line.template, line.values \cup ToldValues(inj))
  BY <1>9, <1>10, <1>12 DEF Based
<1> QED
  BY <1>5, <1>6, <1>11, <1>12, <1>13 DEF san

\* The injected extensions of a certificate are among what hooks told.
LEMMA InjectedTold ==
    ASSUME NEW inj, NEW n \in DOMAIN inj
    PROVE  /\ inj[n].oid \notin Reserved => <<inj[n].oid, inj[n].val>> \in ToldValues(inj)
           /\ inj[n].oid = "san" /\ inj[n].val # Garbage => inj[n].val.names \subseteq ToldNames(inj)
<1>1. inj[n].oid \notin Reserved => <<inj[n].oid, inj[n].val>> \in ToldValues(inj)
  BY Zenon DEF ToldValues
<1>2. inj[n].oid = "san" /\ inj[n].val # Garbage => inj[n].val.names \subseteq ToldNames(inj)
  BY Zenon DEF ToldNames
<1> QED
  BY <1>1, <1>2

\* A handler that returns leaves the server as it was, and no request.
LEMMA ReturnLInv ==
    ASSUME LInv, stage = "hooks", Return, server' = server, LineageTypeOK', Holding'
    PROVE  LInv'
<1>1. stage' = "idle" /\ Begin(NoContext, hooks)
  BY DEF Return
<1>2. hooks \in Seq(Hook)
  BY DEF LInv, IInv, TypeOK
<1>3. NoContext \in Context
  BY DEF NoContext, Context
<1>4. IInv' /\ Layered' /\ hooks' = hooks /\ outcome' = "running"
  BY <1>1, <1>2, <1>3, BeginInOrder
<1>5. Hosted'
  <2>1. server \in Servers /\ hooks = server.hooks /\ from_configs(server)
        /\ validate_provisioner_authorization(server) /\ TemplatesDefined(server)
    BY DEF LInv, Hosted
  <2> QED
    BY <2>1, <1>4
       DEF Hosted, from_configs, validate_provisioner_authorization, TemplatesDefined, Configured
<1> QED
  BY <1>1, <1>4, <1>5 DEF LInv, Quiet, Signing, Reissuing, Grantable, RoutingUnambiguous

\* A request that is refused leaves the certificate as it was.
LEMMA RefuseLInv ==
    ASSUME LInv, Refuse
    PROVE  LInv'
<1>1. stage = "hooks" /\ Return /\ UNCHANGED <<server, cert, line>>
  BY DEF Refuse
<1>2. req' \in Request /\ stage' = "idle"
  BY <1>1 DEF Return, NoRequest, Request
<1>3. LineageTypeOK'
  BY <1>1, <1>2 DEF LInv, LineageTypeOK
<1>4. Holding'
  BY <1>1, SameHolding DEF LInv
<1> QED
  BY <1>1, <1>3, <1>4, ReturnLInv

\* A certificate has the names and the policy of its line, its mark and its identifiers.
LEMMA IssueLInv ==
    ASSUME LInv, NEW inj \in [DOMAIN custom.exts -> Injectable], Issue(inj)
    PROVE  LInv'
<1>1. stage = "hooks" /\ outcome = "ok" /\ Return /\ server' = server
      /\ cert' = IF req.op = "sign" THEN issue(inj) ELSE reissue(inj)
  BY DEF Issue
<1>2. /\ line'.base = IF req.op = "sign" THEN req.permitted ELSE line.base
      /\ line'.sans = line.sans \cup ToldNames(inj)
      /\ line'.values = line.values \cup ToldValues(inj)
      /\ line'.template = IF req.op = "sign" THEN req.template ELSE line.template
      /\ line'.late = line.final
      /\ line'.reissues = IF req.op = "sign" THEN 0 ELSE line.reissues + 1
  BY DEF Issue
<1>3. line'.final = ~(ctx.renewable /\ \A i \in Consulted : replies[i].renew # FALSE)
  BY DEF Issue
<1>4. IInv /\ Layered /\ LineageTypeOK /\ Holding /\ LayeredInOrder
  BY LayersOfReplies DEF LInv
<1>5. PICK cn \in Value \cup San, base \in [Oid -> ExtensionValue \cup {Absent}] :
          /\ cert' = [subject |-> cn, key |-> req.key, exts |-> Sealed(Upserted(base, inj))]
          /\ base["san"] = subject_alt_name_extension(custom.sans, cn = Empty)
          /\ Based(base, line'.template, line'.values)
  <2>1. CASE req.op = "sign"
    <3>1. PICK cn \in Value \cup San, base \in [Oid -> ExtensionValue \cup {Absent}] :
            /\ issue(inj) = [subject |-> cn, key |-> req.key, exts |-> Sealed(Upserted(base, inj))]
            /\ base["san"] = subject_alt_name_extension(custom.sans, cn = Empty)
            /\ Based(base, req.template, ToldValues(inj))
      BY <2>1, <1>1, IssueBase
    <3>2. Based(base, line'.template, line'.values)
      BY <2>1, <3>1, <1>2 DEF Based
    <3> QED
      BY <2>1, <3>1, <3>2, <1>1
  <2>2. CASE req.op # "sign"
    <3>1. PICK cn \in Value \cup San, base \in [Oid -> ExtensionValue \cup {Absent}] :
            /\ reissue(inj) = [subject |-> cn, key |-> req.key, exts |-> Sealed(Upserted(base, inj))]
            /\ base["san"] = subject_alt_name_extension(custom.sans, cn = Empty)
            /\ Based(base, line.template, line.values \cup ToldValues(inj))
      BY <2>2, <1>1, ReissueBase
    <3>2. Based(base, line'.template, line'.values)
      BY <2>2, <3>1, <1>2
    <3> QED
      BY <2>2, <3>1, <3>2, <1>1
  <2> QED
    BY <2>1, <2>2
<1> DEFINE E == Sealed(Upserted(base, inj))
<1>6. req.key \in Key
  BY <1>1 DEF LInv, Signing, Reissuing
<1>7. PICK L \in Nat : DOMAIN custom.exts = 1..L
  BY <1>4 DEF IInv, TypeOK
<1>8. /\ E \in [Oid -> ExtensionValue \cup {Absent}]
      /\ \A o \in Oid \ Reserved :
            E[o] = base[o] \/ \E n \in DOMAIN inj : inj[n].oid = o /\ E[o] = inj[n].val
      /\ E["ski"] = req.key /\ E["aki"] = CaKey
      /\ E["marker"] = IF custom.renewable THEN Absent ELSE [renewable |-> FALSE]
  BY <1>6, <1>7, SealedType
<1> HIDE DEF E
<1>9. cert'.exts = E /\ cert'.key = req.key /\ cert'.subject = cn /\ cert' \in Certificate
  BY <1>5, <1>6, <1>8 DEF Certificate, E
<1>10. cert' # Absent
  BY <1>9, LineageAssumption
<1>11. \A o \in Oid \ Reserved : E[o] = base[o] \/ <<o, E[o]>> \in line'.values
  BY <1>8, <1>2, InjectedTold
<1>12. {"bc", "ku", "eku", "other", "san"} \subseteq Oid \ Reserved
  BY DEF Oid, Reserved
<1>13. PolicyKept'
  <2>1. Based(E, line'.template, line'.values)
    BY <1>5, <1>11, <1>12 DEF Based
  <2> QED
    BY <2>1, <1>9 DEF PolicyKept, Based
<1>14. E["san"] \in {Absent, Garbage} \cup [names : SUBSET (San \cup {Foreign}), critical : BOOLEAN]
  <2>1. base["san"] \in {Absent} \cup [names : SUBSET (San \cup {Foreign}), critical : BOOLEAN]
    BY <1>4, <1>5 DEF subject_alt_name_extension, IInv, TypeOK
  <2>2. \A n \in DOMAIN inj : inj[n].oid = "san" =>
          inj[n].val \in {Garbage} \cup [names : SUBSET (San \cup {Foreign}), critical : BOOLEAN]
    BY LineageAssumption
  <2> QED
    BY <2>1, <2>2, <1>8, <1>12
<1>15. NamesAccounted'
  <2>1. ctx.sans \subseteq line'.base \cup line'.sans
    <3>1. CASE req.op = "sign"
      BY <3>1, <1>1, <1>2 DEF LInv, Signing
    <3>2. CASE req.op # "sign"
      <4>1. cert # Absent /\ cert.exts["san"] # Garbage /\ ctx.sans = cert_sans(cert)
        BY <3>2, <1>1 DEF LInv, Reissuing
      <4>2. ctx.sans \subseteq line.base \cup line.sans
        BY <4>1, <1>4 DEF Holding, NamesAccounted, cert_sans
      <4> QED
        BY <4>2, <3>2, <1>2
    <3> QED
      BY <3>1, <3>2
  <2>2. custom.sans \subseteq line'.base \cup line'.sans
    BY <2>1, <1>1, <1>2, <1>4, NamesTold
  <2>3. CASE E["san"] = base["san"]
    BY <2>2, <2>3, <1>5, <1>9 DEF NamesAccounted, subject_alt_name_extension
  <2>4. ASSUME NEW n \in DOMAIN inj, inj[n].oid = "san", E["san"] = inj[n].val
        PROVE  NamesAccounted'
    <3>1. inj[n].val # Garbage => inj[n].val.names \subseteq line'.sans
      BY <2>4, <1>2, InjectedTold
    <3> QED
      BY <2>4, <3>1, <1>9 DEF NamesAccounted
  <2> QED
    BY <2>3, <2>4, <1>8, <1>12
<1>16. NonRenewableIsFinal'
  <2>1. custom.renewable <=> (ctx.renewable /\ \A i \in Consulted : replies[i].renew # FALSE)
    BY <1>1, <1>4 DEF LayeredInOrder, NoObjection
  <2>2. line'.final <=> ~custom.renewable
    BY <2>1, <1>3
  <2>3. ~line.final
    <3>1. CASE req.op = "sign"
      BY <3>1, <1>1, <1>4 DEF LInv, Signing, Holding, NoLine
    <3>2. CASE req.op # "sign"
      <4>1. cert # Absent /\ cert.exts["marker"] \in {Absent, [renewable |-> TRUE]}
        BY <3>2, <1>1 DEF LInv, Reissuing, is_marked_non_renewable
      <4>2. [renewable |-> FALSE] # Absent
        <5>1. [renewable |-> FALSE] \in ExtensionValue
          BY DEF ExtensionValue
        <5> QED
          BY <5>1, LineageAssumption
      <4>3. [renewable |-> FALSE] # [renewable |-> TRUE]
        <5>1. [renewable |-> FALSE].renewable = FALSE /\ [renewable |-> TRUE].renewable = TRUE
          OBVIOUS
        <5> QED
          BY <5>1
      <4> QED
        BY <4>1, <4>2, <4>3, <1>4 DEF Holding, NonRenewableIsFinal
    <3> QED
      BY <3>1, <3>2
  <2> QED
    BY <2>2, <2>3, <1>2, <1>8, <1>9 DEF NonRenewableIsFinal
<1>17. WellFormed'
  <2>1. ASSUME cn = Empty, E["san"] # Absent
        PROVE  <<"san", E["san"]>> \in line'.values \/ E["san"].critical
    <3>1. E["san"] = base["san"] \/ <<"san", E["san"]>> \in line'.values
      BY <1>11, <1>12
    <3>2. CASE E["san"] = base["san"]
      <4>1. base["san"] = [names |-> custom.sans, critical |-> (cn = Empty)]
        BY <3>2, <2>1, <1>5 DEF subject_alt_name_extension
      <4>2. base["san"].critical = (cn = Empty)
        BY <4>1
      <4> QED
        BY <4>2, <3>2, <2>1
    <3> QED
      BY <3>1, <3>2
  <2> QED
    BY <2>1, <1>8, <1>9 DEF WellFormed
<1>18. Holding'
  BY <1>9, <1>10, <1>13, <1>14, <1>15, <1>16, <1>17 DEF Holding
<1>19. LineageTypeOK'
  <2>1. req' \in Request /\ stage' = "idle"
    BY <1>1 DEF Return, NoRequest, Request
  <2>2. line'.reissues \in 0..MaxReissues
    BY <1>1, <1>2, <1>4, LineageAssumption DEF LInv, LineageTypeOK, Reissuing
  <2>3. line'.final \in BOOLEAN
    BY <1>3, Zenon
  <2> QED
    BY <2>1, <2>2, <2>3, <1>1, <1>4, <1>9 DEF LineageTypeOK
<1> QED
  BY <1>1, <1>18, <1>19, ReturnLInv

\* Every step keeps the invariant.
LEMMA NextLInv == LInv /\ [LineageNext]_allVars => LInv'
<1> SUFFICES ASSUME LInv, [LineageNext]_allVars PROVE LInv'
    OBVIOUS
<1>1. ASSUME NEW s \in Servers, build_service(s) PROVE LInv'
  BY <1>1, BuildLInv
<1>2. ASSUME NEW t \in Tokens, NEW c \in Csrs, Sign(t, c) PROVE LInv'
  BY <1>2, SignLInv
<1>3. CASE Renew
  <2>1. cert.key \in Key /\ Reissue("renew", cert.key)
    BY <1>3 DEF Renew, LInv, LineageTypeOK, Certificate
  <2> QED
    BY <2>1, ReissueLInv
<1>4. ASSUME NEW c \in Csrs, Rekey(c) PROVE LInv'
  <2>1. c.key \in Key /\ Reissue("rekey", c.key)
    BY <1>4, LineageAssumption DEF Rekey, Csr
  <2> QED
    BY <2>1, ReissueLInv
<1>5. CASE Pipeline
  BY <1>5, PipelineLInv
<1>6. CASE Finish
  BY <1>6, RefuseLInv, IssueLInv DEF Finish
<1>7. CASE UNCHANGED allVars
  <2>1. UNCHANGED vars /\ UNCHANGED <<server, stage, req, cert, line>>
    BY <1>7 DEF allVars, vars
  <2>2. IInv' /\ Layered'
    BY <2>1, NextIInv, NextLayered DEF LInv
  <2>3. hooks' = hooks /\ ctx' = ctx /\ outcome' = outcome /\ Consulted' = Consulted
    BY <2>1 DEF vars, Consulted, applies_to
  <2>4. LineageTypeOK'
    BY <2>1 DEF LInv, LineageTypeOK
  <2>5. Hosted'
    BY <2>1, <2>3 DEF LInv, Hosted, from_configs, validate_provisioner_authorization, TemplatesDefined, Configured
  <2>6. Quiet' /\ Signing' /\ Reissuing' /\ Grantable' /\ RoutingUnambiguous'
    BY <2>1, <2>3
       DEF LInv, Quiet, Signing, Reissuing, Grantable, RoutingUnambiguous, Configured
  <2>7. Holding'
    BY <2>1, SameHolding DEF LInv
  <2> QED
    BY <2>2, <2>4, <2>5, <2>6, <2>7 DEF LInv
<1> QED
  BY <1>1, <1>2, <1>3, <1>4, <1>5, <1>6, <1>7 DEF LineageNext

----------------------------------------------------------------------------
(* The theorems *)

\* The state of the line keeps its type, and with it the request and the certificate
\* (try_sign, try_renew_or_rekey).
THEOREM LineageTyped == LineageSpec => []LineageTypeOK
<1>1. LInv => LineageTypeOK
  BY DEF LInv
<1> QED
  BY <1>1, InitLInv, NextLInv, PTL DEF LineageSpec

\* The verdict of the hooks of a sign, renew or rekey request is exact (hook::run).
THEOREM LineageVerdicts == LineageSpec => []VerdictExact
<1>1. LInv => VerdictExact
  BY VerdictOfReplies DEF LInv
<1> QED
  BY <1>1, InitLInv, NextLInv, PTL DEF LineageSpec

\* What such a request passes with is what its hooks said, in their order (apply_response).
THEOREM LineageLayers == LineageSpec => []LayeredInOrder
<1>1. LInv => LayeredInOrder
  BY LayersOfReplies DEF LInv
<1> QED
  BY <1>1, InitLInv, NextLInv, PTL DEF LineageSpec

\* Through any number of renewals, rekeys and restarts, the names of a certificate were
\* permitted by the token it goes back to or put in by a hook (try_sign, ca::reissue).
THEOREM NamesGoBack == LineageSpec => []NamesAccounted
<1>1. LInv => NamesAccounted
  BY DEF LInv, Holding
<1> QED
  BY <1>1, InitLInv, NextLInv, PTL DEF LineageSpec

\* Its constraints, usages and further extensions are those of the template it was signed
\* under or of a hook since (build_extensions, ca::reissue).
THEOREM PolicyGoesBack == LineageSpec => []PolicyKept
<1>1. LInv => PolicyKept
  BY DEF LInv, Holding
<1> QED
  BY <1>1, InitLInv, NextLInv, PTL DEF LineageSpec

\* It is marked exactly when its token or a hook said so, and then it is the last
\* (set_non_renewable_marker, is_marked_non_renewable).
THEOREM MarkIsFinal == LineageSpec => []NonRenewableIsFinal
<1>1. LInv => NonRenewableIsFinal
  BY DEF LInv, Holding
<1> QED
  BY <1>1, InitLInv, NextLInv, PTL DEF LineageSpec

\* Its key identifiers are its own and those of the CA, whatever hooks inject
\* (finalize_key_identifiers).
THEOREM CertificateWellFormed == LineageSpec => []WellFormed
<1>1. LInv => WellFormed
  BY DEF LInv, Holding
<1> QED
  BY <1>1, InitLInv, NextLInv, PTL DEF LineageSpec

\* The policy applied to a token is that of the only provisioner with its issuer
\* (from_configs).
THEOREM RoutingExact == LineageSpec => []RoutingUnambiguous
<1>1. LInv => RoutingUnambiguous
  BY DEF LInv
<1> QED
  BY <1>1, InitLInv, NextLInv, PTL DEF LineageSpec

\* Where a request is forbidden, a hook was asked and did not let it pass: there is one
\* because the server would not have started without it
\* (validate_provisioner_authorization, unauthorized_guard).
LEMMA ForbiddenByHook == LInv => RefusedByHook
<1> SUFFICES ASSUME LInv, outcome = "forbidden"
             PROVE  \E i \in Consulted : replies[i] # Absent /\ replies[i].allow # "grant"
    BY DEF RefusedByHook
<1>1. stage = "hooks"
  BY DEF LInv, Quiet
<1>2. CASE pos \in Consulted /\ replies[pos] # Absent /\ replies[pos].allow = "deny"
  BY <1>2
<1>3. CASE pos > Len(hooks) /\ ~ctx.authorized /\ ~granted
  <2>1. PICK i \in Consulted : TRUE
    BY <1>1, <1>3 DEF LInv, Grantable
  <2>2. i < pos
    BY <1>3, <2>1 DEF LInv, IInv, TypeOK, Consulted
  <2> QED
    BY <1>3, <2>1, <2>2 DEF LInv, IInv, Progress, Passed
<1> QED
  BY <1>2, <1>3 DEF LInv, IInv, Progress

\* No request is forbidden by mere configuration (validate_provisioner_authorization).
THEOREM RefusalsByHook == LineageSpec => []RefusedByHook
  BY ForbiddenByHook, InitLInv, NextLInv, PTL DEF LineageSpec
==============================================================================
