---------------------------- MODULE ServicePatch ----------------------------
(***************************************************************************)
(* KubernetesServicePatch as this charm uses it: the Service that Juju     *)
(* makes for the application, named after it and of type ClusterIP, is     *)
(* given the webhook and metrics ports by every unit, in its install,      *)
(* upgrade and update-status hooks, one Kubernetes call at a time.         *)
(***************************************************************************)
EXTENDS Naturals

CONSTANTS
    Units, \* units the application may have
    Limit  \* how often the environment takes each of its steps

EnvSteps == {"add", "leave", "upgrade", "apply", "trust", "fault", "outage"}

ASSUME ConstantsAssumption == Limit \in [EnvSteps -> Nat]

Hooks == {"install", "upgrade-charm", "update-status", "remove"}

\* Where a hook stands: between two hooks, failed, or at a Kubernetes call.
Calls == {"list", "delete-balancer", "get", "patch", "delete"}
Steps == {"idle", "error"} \cup Calls

VARIABLES
    service,  \* "absent", "juju" (Juju's ports) or "patched"
    balancer, \* a LoadBalancer Service of an earlier revision exists
    trusted,  \* the application may use the Kubernetes API (juju trust)
    status,   \* status[u]: "absent", "alive" or "leaving"
    todo,     \* todo[u]: hooks queued for u
    pc, hook, \* pc[u]: next call of u's hook; hook[u]: that hook
    spent

cluster == <<service, balancer, trusted>>
vars == <<cluster, status, todo, pc, hook, spent>>

Alive == {u \in Units : status[u] = "alive"}

-----------------------------------------------------------------------------
\* mutation: update-status is not observed
FirstWithoutUpdateStatus(h) == CASE h = "upgrade-charm" -> "list"
                                 [] h = "remove" -> "delete"
                                 [] h = "install" -> "get"
                                 [] OTHER -> "idle"

\* mutation: upgrading only patches
FirstWithoutList(h) == IF h = "remove" THEN "delete" ELSE "get"

\* The first call of each hook (the observers of __init__).
First(h) == CASE h = "upgrade-charm" -> "list"
              [] h = "remove" -> "delete"
              [] OTHER -> "get"

\* A unit leaves once its other hooks are done; a failed hook is retried.
Deliverable(u, h) ==
    \/ pc[u] = "error" /\ hook[u] = h
    \/ pc[u] = "idle" /\ h \in todo[u] /\ ("install" \in todo[u] => h = "install")

Handle(u, h) ==
    /\ Deliverable(u, h)
    /\ todo' = [todo EXCEPT ![u] = @ \ {h}]
    /\ hook' = [hook EXCEPT ![u] = h]
    /\ pc' = [pc EXCEPT ![u] = First(h)]
    /\ UNCHANGED <<cluster, status, spent>>

Goes(u, next) == pc' = [pc EXCEPT ![u] = next]

\* A call of u's hook that the API server accepts.
Call(u, c) == pc[u] = c /\ trusted /\ UNCHANGED <<trusted, todo, hook, spent>>

\* _is_patched; a Service that is not there (404) is only logged, as the
\* patched Service has the application's own name.
Get(u) ==
    /\ Call(u, "get")
    /\ Goes(u, IF service = "juju" THEN "patch" ELSE "idle")
    /\ UNCHANGED <<service, balancer, status>>

\* A merge patch gives a Service the charm's ports, and makes none.
Patched == IF service = "absent" THEN "absent" ELSE "patched"

Patch(u) ==
    /\ Call(u, "patch")
    /\ service' = Patched
    /\ Goes(u, "idle")
    /\ UNCHANGED <<balancer, status>>

\* _on_upgrade_charm: LoadBalancer Services of the application are listed,
List(u) ==
    /\ Call(u, "list")
    /\ Goes(u, IF balancer THEN "delete-balancer" ELSE "get")
    /\ UNCHANGED <<service, balancer, status>>

\* then deleted, which fails if another unit has been faster.
DeleteBalancer(u) ==
    /\ Call(u, "delete-balancer")
    /\ balancer' = FALSE
    /\ Goes(u, IF balancer THEN "get" ELSE "error")
    /\ UNCHANGED <<service, status>>

\* _remove_service, on any unit that goes.
RemoveService(u) ==
    /\ Call(u, "delete")
    /\ service' = "absent"
    /\ status' = [status EXCEPT ![u] = "absent"]
    /\ Goes(u, "idle")
    /\ UNCHANGED balancer

\* mutation: what deletes a load balancer is as forgiving as the patch
OutcomeCaught(u) == "idle"

\* _patch catches an error the API server answers with; the other two do not.
Outcome(u) == IF pc[u] \in {"get", "patch"} THEN "idle" ELSE "error"

Refused(u) ==
    /\ pc[u] \in Calls
    /\ Goes(u, Outcome(u))
    /\ UNCHANGED <<cluster, status, todo, hook>>

\* 403: the application is not trusted.
Forbidden(u) == ~trusted /\ Refused(u) /\ UNCHANGED spent

-----------------------------------------------------------------------------
Spend(k) == spent[k] < Limit[k] /\ spent' = [spent EXCEPT ![k] = @ + 1]

CallFails(u) == Spend("fault") /\ Refused(u)

\* No answer (no connection, a timeout) is no ApiError: it leaves _patch, too,
\* and fails the hook, whether or not the API server has done what was asked.
Unanswered(u) ==
    /\ Spend("outage")
    /\ pc[u] \in Calls
    /\ \/ UNCHANGED <<service, balancer>>
       \/ trusted /\ pc[u] = "patch" /\ service' = Patched /\ UNCHANGED balancer
       \/ trusted /\ pc[u] = "delete" /\ service' = "absent" /\ UNCHANGED balancer
       \/ trusted /\ pc[u] = "delete-balancer" /\ balancer' = FALSE /\ UNCHANGED service
    /\ Goes(u, "error")
    /\ UNCHANGED <<trusted, status, todo, hook>>

Add(u) ==
    /\ Spend("add")
    /\ status[u] = "absent"
    /\ status' = [status EXCEPT ![u] = "alive"]
    /\ todo' = [todo EXCEPT ![u] = {"install"}]
    /\ UNCHANGED <<cluster, pc, hook>>

Leave(u) ==
    /\ Spend("leave")
    /\ u \in Alive
    /\ status' = [status EXCEPT ![u] = "leaving"]
    /\ todo' = [todo EXCEPT ![u] = (@ \cap {"install"}) \cup {"remove"}]
    /\ UNCHANGED <<cluster, pc, hook>>

Upgrade ==
    /\ Spend("upgrade")
    /\ todo' = [u \in Units |-> IF u \in Alive THEN todo[u] \cup {"upgrade-charm"}
                                ELSE todo[u]]
    /\ UNCHANGED <<cluster, status, pc, hook>>

\* Juju applies its own definition of the Service, as it does on a refresh.
JujuApplies ==
    /\ Spend("apply")
    /\ service' = "juju"
    /\ UNCHANGED <<balancer, trusted, status, todo, pc, hook>>

Trust ==
    /\ Spend("trust")
    /\ trusted' = ~trusted
    /\ UNCHANGED <<service, balancer, status, todo, pc, hook>>

UpdateStatus(u) ==
    /\ u \in Alive /\ pc[u] = "idle" /\ todo[u] = {}
    /\ todo' = [todo EXCEPT ![u] = {"update-status"}]
    /\ UNCHANGED <<cluster, status, pc, hook, spent>>

Init ==
    /\ service = "juju"
    /\ balancer \in BOOLEAN /\ trusted \in BOOLEAN
    /\ status = [u \in Units |-> "alive"]
    /\ todo = [u \in Units |-> {"install"}]
    /\ pc = [u \in Units |-> "idle"]
    /\ hook = [u \in Units |-> "install"]
    /\ spent = [k \in EnvSteps |-> 0]

HookStep(u) ==
    \/ \E h \in Hooks : Handle(u, h)
    \/ Get(u) \/ Patch(u) \/ List(u) \/ DeleteBalancer(u) \/ RemoveService(u)
    \/ Forbidden(u)

Next ==
    \/ \E u \in Units : HookStep(u) \/ CallFails(u) \/ Unanswered(u)
                       \/ Add(u) \/ Leave(u) \/ UpdateStatus(u)
    \/ Upgrade \/ JujuApplies \/ Trust

Spec     == Init /\ [][Next]_vars

\* Juju runs what it has queued, retries a failed hook, and fires
\* update-status periodically.
FairSpec == Spec /\ \A u \in Units : WF_vars(HookStep(u)) /\ WF_vars(UpdateStatus(u))

-----------------------------------------------------------------------------
TypeOK ==
    /\ service \in {"absent", "juju", "patched"}
    /\ balancer \in BOOLEAN /\ trusted \in BOOLEAN
    /\ status \in [Units -> {"absent", "alive", "leaving"}]
    /\ todo \in [Units -> SUBSET Hooks]
    /\ pc \in [Units -> Steps] /\ hook \in [Units -> Hooks]
    /\ spent \in [EnvSteps -> Nat]
    /\ \A u \in Units :
        /\ status[u] = "absent" => pc[u] = "idle" /\ todo[u] = {}
        /\ status[u] = "leaving" => "remove" \in todo[u] \/ (hook[u] = "remove" /\ pc[u] # "idle")

\* Whatever refused the patch at first, and whenever Juju puts its own ports
\* back: while the application is trusted, has a unit that stays and a
\* Service, the Service ends up with the charm's ports for good.
EventuallyPatched ==
    <>[](trusted /\ service # "absent" /\ \E u \in Units : u \in Alive)
        => <>[](service = "patched")

\* "If a charm author changed the service type from LB to ClusterIP across an
\* upgrade, we need to delete the previous LB": a load balancer goes after an
\* upgrade that reaches units that stay, also when two of them race to delete it.
BalancerGone ==
    \A u \in Units :
        <>("upgrade-charm" \in todo[u]) /\ <>[](trusted /\ u \in Alive) /\ [](spent["leave"] = 0)
            => <>~balancer

\* "If a charm author changed the service type from LB to ClusterIP across an
\* upgrade, we need to delete the previous LB": a unit whose upgrade hook is
\* past that point, and is not to be retried, leaves no load balancer behind,
\* however often the hook failed before and whatever other units deleted.
UpgradedWithoutBalancer ==
    \A u \in Units :
        hook[u] = "upgrade-charm" /\ pc[u] \in {"get", "patch", "idle"} => ~balancer

\* "Specifically designed to delete the load balancer service created by the
\* charm, since Juju only deletes the default ClusterIP service"
\* (kubernetes_service_patch.py:267-268): the Service of an application that
\* still has units is there.
ServiceOutlivesUnits == Alive # {} => service # "absent"
=============================================================================
