------------------------- MODULE ServicePatch_proofs -------------------------
(* What ServicePatch never does, for any units and any environment. *)
EXTENDS ServicePatch, TLAPS

Typed ==
    /\ service \in {"absent", "juju", "patched"}
    /\ balancer \in BOOLEAN /\ trusted \in BOOLEAN
    /\ status \in [Units -> {"absent", "alive", "leaving"}]
    /\ todo \in [Units -> SUBSET Hooks]
    /\ pc \in [Units -> Steps] /\ hook \in [Units -> Hooks]
    /\ spent \in [EnvSteps -> Nat]

\* What is queued for unit u, whose status is s, and where its hook h stands:
\* the call p is one of h, and the remove hook comes once and last.
UnitInv(s, t, p, h) ==
    /\ p \in {"list", "delete-balancer"} => h = "upgrade-charm"
    /\ p = "delete" => h = "remove"
    /\ p \in {"get", "patch"} => h # "remove"
    /\ s = "absent" => p = "idle" /\ t = {}
    /\ s = "alive" => "remove" \notin t /\ (h = "remove" => p = "idle")
    /\ s = "leaving" => IF h = "remove" /\ p # "idle" THEN t = {}
                        ELSE "remove" \in t /\ t \subseteq {"install", "remove"}

UnitsInv == \A u \in Units : UnitInv(status[u], todo[u], pc[u], hook[u])

Inv == Typed /\ UnitsInv

\* A step that concerns unit u only, and keeps what is said of it, keeps all.
LEMMA OneUnit ==
    ASSUME Inv, Typed', NEW u \in Units,
           \A v \in Units \ {u} : /\ status'[v] = status[v] /\ todo'[v] = todo[v]
                                  /\ pc'[v] = pc[v] /\ hook'[v] = hook[v],
           UnitInv(status'[u], todo'[u], pc'[u], hook'[u])
    PROVE  Inv'
  BY DEF Inv, UnitsInv, UnitInv

LEMMA InitInv == Init => Inv
  BY ConstantsAssumption DEF Init, Inv, UnitsInv, Typed, UnitInv, Hooks, Steps, EnvSteps

LEMMA NextTyped == Inv /\ [Next]_vars => Typed'
<1> SUFFICES ASSUME Inv, [Next]_vars PROVE Typed'
  OBVIOUS
<1> USE DEF Inv, Typed, cluster, Steps, Calls
<1>1. ASSUME NEW k \in EnvSteps, Spend(k) PROVE spent' \in [EnvSteps -> Nat]
  BY <1>1 DEF Spend
<1>2. ASSUME NEW u \in Units, HookStep(u) PROVE Typed'
  <2>1. ASSUME NEW h \in Hooks, Handle(u, h) PROVE Typed'
    BY <2>1 DEF Handle, First
  <2>2. CASE Get(u) BY <2>2 DEF Get, Call, Goes
  <2>3. CASE Patch(u) BY <2>3 DEF Patch, Patched, Call, Goes
  <2>4. CASE List(u) BY <2>4 DEF List, Call, Goes
  <2>5. CASE DeleteBalancer(u) BY <2>5 DEF DeleteBalancer, Call, Goes
  <2>6. CASE RemoveService(u) BY <2>6 DEF RemoveService, Call, Goes
  <2>7. CASE Forbidden(u) BY <2>7 DEF Forbidden, Refused, Outcome, Goes
  <2>8. QED BY <1>2, <2>1, <2>2, <2>3, <2>4, <2>5, <2>6, <2>7 DEF HookStep
<1>3. ASSUME NEW u \in Units, CallFails(u) PROVE Typed'
  BY <1>1, <1>3 DEF CallFails, Refused, Outcome, Goes, EnvSteps
<1>10. ASSUME NEW u \in Units, Unanswered(u) PROVE Typed'
  <2>1. /\ spent' \in [EnvSteps -> Nat] /\ pc' = [pc EXCEPT ![u] = "error"]
        /\ UNCHANGED <<trusted, status, todo, hook>>
    BY <1>1, <1>10 DEF Unanswered, Goes, EnvSteps
  <2>2. service' \in {service, "absent", "patched"} /\ balancer' \in {balancer, FALSE}
    BY <1>10 DEF Unanswered, Patched
  <2>3. QED BY <2>1, <2>2
<1>4. ASSUME NEW u \in Units, Add(u) \/ Leave(u) PROVE Typed'
  BY <1>1, <1>4 DEF Add, Leave, EnvSteps, Hooks
<1>5. ASSUME NEW u \in Units, UpdateStatus(u) PROVE Typed'
  BY <1>5 DEF UpdateStatus, Hooks
<1>6. CASE Upgrade
  BY <1>1, <1>6 DEF Upgrade, EnvSteps, Hooks
<1>7. CASE JujuApplies \/ Trust
  BY <1>1, <1>7 DEF JujuApplies, Trust, EnvSteps
<1>8. CASE UNCHANGED vars BY <1>8 DEF vars
<1>9. QED BY <1>2, <1>3, <1>10, <1>4, <1>5, <1>6, <1>7, <1>8 DEF Next

\* A refused call of u's hook goes where Outcome says.
LEMMA RefusedInv ==
    ASSUME Inv, Typed', NEW u \in Units, Refused(u)
    PROVE  Inv'
<1>1. pc[u] \in Calls /\ pc' = [pc EXCEPT ![u] = Outcome(u)] /\ UNCHANGED <<status, todo, hook>>
  BY DEF Refused, Goes
<1>2. UnitInv(status[u], todo[u], pc'[u], hook[u])
  BY <1>1 DEF Inv, UnitsInv, Typed, UnitInv, Outcome, Calls
<1>3. \A v \in Units \ {u} : pc'[v] = pc[v]
  BY <1>1 DEF Inv, Typed
<1>4. QED BY <1>1, <1>2, <1>3, OneUnit

LEMMA NextInv == Inv /\ [Next]_vars => Inv'
<1> SUFFICES ASSUME Inv, [Next]_vars PROVE Inv'
  OBVIOUS
<1>1. Typed' BY NextTyped
<1> USE <1>1
<1>2. ASSUME NEW u \in Units, HookStep(u) PROVE Inv'
  <2>1. ASSUME NEW h \in Hooks, Handle(u, h) PROVE Inv'
    <3>1. /\ status' = status /\ todo' = [todo EXCEPT ![u] = @ \ {h}]
          /\ hook' = [hook EXCEPT ![u] = h] /\ pc' = [pc EXCEPT ![u] = First(h)]
      BY <2>1 DEF Handle
    <3>2. /\ \A v \in Units \ {u} : todo'[v] = todo[v] /\ pc'[v] = pc[v] /\ hook'[v] = hook[v]
          /\ todo'[u] = todo[u] \ {h} /\ hook'[u] = h /\ pc'[u] = First(h)
      BY <3>1 DEF Inv, Typed
    <3>3. \/ pc[u] = "error" /\ hook[u] = h
          \/ pc[u] = "idle" /\ h \in todo[u] /\ ("install" \in todo[u] => h = "install")
      BY <2>1 DEF Handle, Deliverable
    <3>4. UnitInv(status[u], todo[u], pc[u], hook[u])
          /\ status[u] \in {"absent", "alive", "leaving"} /\ todo[u] \in SUBSET Hooks
      BY DEF Inv, UnitsInv, Typed
    <3>5. UnitInv(status[u], todo[u] \ {h}, First(h), h)
      <4>1. CASE h = "remove"
        BY <3>3, <3>4, <4>1 DEF UnitInv, First
      <4>2. CASE h # "remove"
        BY <3>3, <3>4, <4>2 DEF UnitInv, First
      <4>3. QED BY <4>1, <4>2
    <3>6. QED BY <3>1, <3>2, <3>5, OneUnit
  <2>2. ASSUME NEW n, Goes(u, n), UNCHANGED <<todo, hook>>,
               \A v \in Units \ {u} : status'[v] = status[v],
               UnitInv(status'[u], todo[u], n, hook[u])
        PROVE  Inv'
    <3>1. pc'[u] = n /\ \A v \in Units \ {u} : pc'[v] = pc[v]
      BY <2>2 DEF Goes, Inv, Typed
    <3>2. QED BY <2>2, <3>1, OneUnit
  <2>3. UnitInv(status[u], todo[u], pc[u], hook[u]) BY DEF Inv, UnitsInv
  <2>4. CASE Get(u)
    BY <2>2, <2>3, <2>4 DEF Get, Call, UnitInv
  <2>5. CASE Patch(u)
    BY <2>2, <2>3, <2>5 DEF Patch, Call, UnitInv
  <2>6. CASE List(u)
    BY <2>2, <2>3, <2>6 DEF List, Call, UnitInv
  <2>7. CASE DeleteBalancer(u)
    BY <2>2, <2>3, <2>7 DEF DeleteBalancer, Call, UnitInv
  <2>8. CASE RemoveService(u)
    <3>1. status'[u] = "absent" /\ \A v \in Units \ {u} : status'[v] = status[v]
      BY <2>8 DEF RemoveService, Inv, Typed
    <3>2. hook[u] = "remove" /\ todo[u] = {}
      BY <2>3, <2>8 DEF RemoveService, Call, UnitInv, Inv, Typed
    <3>3. UnitInv(status'[u], todo[u], "idle", hook[u]) BY <3>1, <3>2 DEF UnitInv
    <3>4. QED BY <2>2, <2>8, <3>1, <3>3 DEF RemoveService, Call
  <2>9. CASE Forbidden(u) BY <2>9, RefusedInv DEF Forbidden
  <2>10. QED BY <1>2, <2>1, <2>4, <2>5, <2>6, <2>7, <2>8, <2>9 DEF HookStep
<1>3. ASSUME NEW u \in Units, CallFails(u) PROVE Inv'
  BY <1>3, RefusedInv DEF CallFails
<1>8. ASSUME NEW u \in Units, Unanswered(u) PROVE Inv'
  <2>1. /\ pc[u] \in Calls /\ pc' = [pc EXCEPT ![u] = "error"]
        /\ UNCHANGED <<status, todo, hook>>
    BY <1>8 DEF Unanswered, Goes
  <2>2. UnitInv(status[u], todo[u], pc'[u], hook[u])
    BY <2>1 DEF Inv, UnitsInv, Typed, UnitInv, Calls
  <2>3. \A v \in Units \ {u} : pc'[v] = pc[v]
    BY <2>1 DEF Inv, Typed
  <2>4. QED BY <2>1, <2>2, <2>3, OneUnit
<1>4. ASSUME NEW u \in Units, Add(u) \/ Leave(u) \/ UpdateStatus(u) PROVE Inv'
  <2>1. /\ UNCHANGED <<pc, hook>>
        /\ \A v \in Units \ {u} : status'[v] = status[v] /\ todo'[v] = todo[v]
    BY <1>4 DEF Add, Leave, UpdateStatus, Inv, Typed, cluster
  <2>2. UnitInv(status'[u], todo'[u], pc[u], hook[u])
    BY <1>4 DEF Add, Leave, UpdateStatus, Inv, UnitsInv, Typed, UnitInv, Alive, cluster
  <2>3. QED BY <2>1, <2>2, OneUnit
<1>5. CASE Upgrade
  BY <1>5 DEF Upgrade, Inv, UnitsInv, Typed, UnitInv, Alive
<1>6. CASE JujuApplies \/ Trust \/ UNCHANGED vars
  BY <1>6 DEF JujuApplies, Trust, vars, Inv, UnitsInv, UnitInv
<1>7. QED BY <1>2, <1>3, <1>8, <1>4, <1>5, <1>6 DEF Next

\* Every state of ServicePatch is well typed; a unit that is gone does nothing,
\* and one that leaves has its remove hook before it.
THEOREM TypeCorrect == Spec => []TypeOK
<1>1. Inv => TypeOK BY DEF Inv, UnitsInv, Typed, UnitInv, TypeOK
<1>2. QED BY <1>1, InitInv, NextInv, PTL DEF Spec

\* The balancer goes only in a DeleteBalancer step (or an unanswered one), and
\* a hook passes that point only where the list or the deletion says it is gone.
LEMMA BalancerStays == [Next]_vars => (balancer' => balancer)
  BY DEF Next, vars, cluster, HookStep, Handle, Get, Patch, List, DeleteBalancer, RemoveService,
         Call, Forbidden, CallFails, Refused, Unanswered, Add, Leave, UpdateStatus, Upgrade,
         JujuApplies, Trust

LEMMA NextWithoutBalancer ==
    Inv /\ UpgradedWithoutBalancer /\ [Next]_vars => UpgradedWithoutBalancer'
<1> SUFFICES ASSUME Inv, UpgradedWithoutBalancer, [Next]_vars,
                    NEW u \in Units, hook'[u] = "upgrade-charm",
                    pc'[u] \in {"get", "patch", "idle"}
             PROVE  ~balancer'
  BY DEF UpgradedWithoutBalancer
<1>1. CASE hook[u] = "upgrade-charm" /\ pc[u] \in {"get", "patch", "idle"}
  BY <1>1, BalancerStays DEF UpgradedWithoutBalancer
<1>2. CASE ~(hook[u] = "upgrade-charm" /\ pc[u] \in {"get", "patch", "idle"})
  <2> USE <1>2 DEF Inv, Typed
  <2>1. ASSUME NEW v \in Units, NEW n, Goes(v, n), hook' = hook
        PROVE  v = u /\ n \in {"get", "patch", "idle"} /\ hook[u] = "upgrade-charm"
    BY <2>1 DEF Goes
  <2>2. ASSUME NEW v \in Units, HookStep(v) PROVE ~balancer'
    <3>1. ASSUME NEW h \in Hooks, Handle(v, h) PROVE FALSE
      <4>1. /\ hook' = [hook EXCEPT ![v] = h] /\ pc' = [pc EXCEPT ![v] = First(h)]
        BY <3>1 DEF Handle
      <4>2. v = u /\ h = "upgrade-charm" BY <4>1
      <4>3. pc'[u] = "list" BY <4>1, <4>2 DEF First
      <4>4. QED BY <4>3
    <3>2. CASE Get(v)
      <4>1. v = u /\ hook[u] = "upgrade-charm" BY <3>2, <2>1 DEF Get, Call
      <4>2. QED BY <4>1, <3>2 DEF Get, Call
    <3>3. CASE Patch(v)
      <4>1. v = u /\ hook[u] = "upgrade-charm" BY <3>3, <2>1 DEF Patch, Call
      <4>2. QED BY <4>1, <3>3 DEF Patch, Call
    <3>4. CASE List(v) BY <3>4, <2>1 DEF List, Call
    <3>5. CASE DeleteBalancer(v) BY <3>5 DEF DeleteBalancer
    <3>6. CASE RemoveService(v)
      <4>1. v = u /\ hook[u] = "upgrade-charm" BY <3>6, <2>1 DEF RemoveService, Call
      <4>2. QED BY <4>1, <3>6 DEF RemoveService, Call, UnitsInv, UnitInv
    <3>7. CASE Forbidden(v)
      <4>1. v = u /\ Outcome(v) # "error" BY <3>7, <2>1 DEF Forbidden, Refused
      <4>2. QED BY <4>1, <3>7, <2>1 DEF Forbidden, Refused, Outcome
    <3>8. QED BY <2>2, <3>1, <3>2, <3>3, <3>4, <3>5, <3>6, <3>7 DEF HookStep
  <2>3. ASSUME NEW v \in Units, CallFails(v) PROVE FALSE
    <3>1. v = u /\ Outcome(v) # "error" BY <2>3, <2>1 DEF CallFails, Refused
    <3>2. QED BY <3>1, <2>3, <2>1 DEF CallFails, Refused, Outcome
  <2>4. ASSUME NEW v \in Units, Unanswered(v) PROVE FALSE
    BY <2>4, <2>1 DEF Unanswered
  <2>5. ASSUME NEW v \in Units, Add(v) \/ Leave(v) \/ UpdateStatus(v) PROVE FALSE
    BY <2>5 DEF Add, Leave, UpdateStatus
  <2>6. CASE Upgrade \/ JujuApplies \/ Trust \/ UNCHANGED vars
    BY <2>6 DEF Upgrade, JujuApplies, Trust, vars
  <2>7. QED BY <2>2, <2>3, <2>4, <2>5, <2>6 DEF Next
<1>3. QED BY <1>1, <1>2

\* In every order of upgrades, refusals, lost answers and deletions by other
\* units, an upgrade hook that is through has left no load balancer behind.
THEOREM UpgradesLeaveNoBalancer == Spec => []UpgradedWithoutBalancer
<1>1. Init => UpgradedWithoutBalancer BY DEF Init, UpgradedWithoutBalancer
<1>2. QED BY <1>1, InitInv, NextInv, NextWithoutBalancer, PTL DEF Spec
=============================================================================
