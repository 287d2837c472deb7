--------------------------- MODULE PvcViewerCharm ---------------------------
(***************************************************************************)
(* The charm of the PVC Viewer operator: src/src/charm.py with its         *)
(* components under src/src/components.  Every unit of the application     *)
(* runs one hook at a time; a hook rebuilds the charm object, which        *)
(* generates certificates if its StoredState holds none, and then the      *)
(* CharmReconciler executes the components                                 *)
(*                                                                         *)
(*     leadership-gate --> kubernetes ----------+                          *)
(*                    \--> service-mesh --------+--> pebble                *)
(*                                                                         *)
(* each one only when those it depends on are active.  Units share the     *)
(* cluster (the webhooks' caBundle, the allow-all policy) and nothing      *)
(* else: certificates live in the StoredState of each unit.                *)
(* Juju, Kubernetes, Pebble and the charmed-kubeflow-chisme library are    *)
(* the environment.                                                        *)
(***************************************************************************)
EXTENDS Naturals, Sequences, FiniteSets

CONSTANTS
    Units,           \* units of the application
    Gateways,        \* what the gateway-metadata relation may announce
    DefaultGateway,  \* "kubeflow/kubeflow-gateway", the sidecar-mode default
    NoData,          \* the relation exists and holds no metadata yet
    NoPlan,          \* Pebble holds no service layer
    NoEvent,         \* the unit runs no hook
    Limit            \* how often the environment takes each of its steps

EnvSteps == {"relate", "publish", "break", "leader", "fault",
             "restart", "churn", "remove", "tick"}

GatewayMetadata == "gateway-metadata"
ServiceMesh     == "service-mesh"
Relations       == {GatewayMetadata, ServiceMesh}

\* Certificates are named by the order of their generation; 0 is "none".
NoCert == 0

\* Webhook configurations in the order of webhook_manifests.yaml.j2, and
\* the files of the workload container in the order they are pushed.
Webhooks  == <<"mutating", "validating">>
Files     == <<"tls.key", "tls.crt", "tls.ca">>
Resources == {"mutating", "validating"}
CertFiles == {"tls.key", "tls.crt", "tls.ca"}

Position(seq, x) == CHOOSE i \in DOMAIN seq : seq[i] = x

Lifecycle  == [kind |-> "lifecycle", rel |-> "none"]
Removal    == [kind |-> "remove", rel |-> "none"]
RelationEvent == [kind : {"created", "changed", "broken"}, rel : Relations]
Event      == RelationEvent \cup {Lifecycle, Removal}
Created(r) == [kind |-> "created", rel |-> r]
Changed(r) == [kind |-> "changed", rel |-> r]
Broken(r)  == [kind |-> "broken", rel |-> r]

ASSUME ConstantsAssumption ==
    /\ Units # {}
    /\ DefaultGateway \notin Gateways
    /\ NoData \notin Gateways \cup {DefaultGateway}
    /\ NoPlan \notin [ambient : BOOLEAN, gateway : Gateways \cup {DefaultGateway}]
    /\ NoEvent \notin Event
    /\ Limit \in [EnvSteps -> Nat]

VARIABLES
    (* Juju *)
    members,   \* units that have not been removed
    leader,    \* the unit holding the leadership lease
    rel,       \* rel[r]: "absent", "alive" or "dying"
    metadata,  \* what the gateway-metadata relation announces
    seen,      \* seen[u]: relations that unit u's hooks see
    todo,      \* todo[u]: events queued for u
    (* the unit's pod *)
    stored,    \* stored[u]: certificate in u's committed StoredState
    connected, \* connected[u]: Pebble of u's workload container answers
    files,     \* files[u][f]: certificate that file f was written from
    plan,      \* plan[u]: the Pebble service layer
    status,    \* status[u]: the unit status set by the last reconcile
    (* the cluster, shared by the units *)
    caBundle,  \* caBundle[w]: certificate that webhook configuration w trusts
    allowAll,  \* the allow-all authorization policy exists
    (* the hook in progress *)
    pc,        \* pc[u]: "idle", "error", or the next step of the hook
    ev,        \* ev[u]: the event the hook handles
    certs,     \* certs[u]: the certificate of this dispatch
    st,        \* st[u][c]: status of component c, "pending" until executed
    meta,      \* meta[u]: gateway metadata as read and cached by the hook
    (* accounting *)
    issued,    \* certificates generated so far
    spent      \* spent[k]: how often the environment took step k

juju    == <<members, leader, rel, metadata>>
pod     == <<stored, connected, files, plan, status>>
cluster == <<caBundle, allowAll>>
hook    == <<pc, ev, certs, st, meta>>
vars    == <<juju, seen, todo, pod, cluster, hook, issued, spent>>

-----------------------------------------------------------------------------
(* The component graph *)

Components == {"leadership-gate", "kubernetes", "service-mesh", "pebble"}
Statuses   == {"pending", "active", "waiting", "blocked"}
Layers     == [ambient : BOOLEAN, gateway : Gateways \cup {DefaultGateway}]

\* mutation: pebble no longer waits for the service mesh
DependsOnKubernetesOnly(c) ==
    CASE c = "leadership-gate" -> {}
      [] c \in {"kubernetes", "service-mesh"} -> {"leadership-gate"}
      [] c = "pebble" -> {"kubernetes"}

\* mutation: the webhooks are not gated on leadership
DependsOnUngatedKubernetes(c) ==
    CASE c \in {"leadership-gate", "kubernetes"} -> {}
      [] c = "service-mesh" -> {"leadership-gate"}
      [] c = "pebble" -> {"kubernetes", "service-mesh"}

DependsOn(c) ==
    CASE c = "leadership-gate" -> {}
      [] c \in {"kubernetes", "service-mesh"} -> {"leadership-gate"}
      [] c = "pebble" -> {"kubernetes", "service-mesh"}

\* The gate asks for leadership each time its status is read.
ComponentStatus(u, c) ==
    IF c = "leadership-gate"
      THEN IF leader = u THEN "active" ELSE "waiting"
      ELSE st[u][c]

Ready(u, c) == \A d \in DependsOn(c) : ComponentStatus(u, d) = "active"

UnitStatus(u) ==
    LET all == {ComponentStatus(u, c) : c \in Components}
    IN  IF all = {"active"} THEN "active"
        ELSE IF "blocked" \in all THEN "blocked" ELSE "waiting"

\* mutations: relation_broken, or the lifecycle events, are not observed
ReconcilesUnlessBroken(e) == e.kind \in {"lifecycle", "changed"}
ReconcilesRelations(e)    == e.kind \in {"changed", "broken"}

\* Which events make the CharmReconciler execute the components.
Reconciles(e) == e.kind \in {"lifecycle", "changed", "broken"}

-----------------------------------------------------------------------------
(* ServiceMeshComponent and PvcViewerPebbleService *)

AmbientMeshEnabled(u) == GatewayMetadata \in seen[u]

\* What get_metadata() returns when the hook first asks for it.
ReadMetadata(u) == IF GatewayMetadata \in seen[u] THEN metadata ELSE NoData

MeshStatus(u, m) ==
    CASE ServiceMesh \in seen[u] /\ GatewayMetadata \notin seen[u] -> "blocked"
      [] GatewayMetadata \in seen[u] /\ m = NoData -> "waiting"
      [] OTHER -> "active"

\* mutation: without metadata the gateway is left empty
GetLayerNoDefault(u) ==
    [ambient |-> GatewayMetadata \in seen[u], gateway |-> meta[u]]

GetLayer(u) ==
    [ambient |-> GatewayMetadata \in seen[u],
     gateway |-> IF meta[u] = NoData THEN DefaultGateway ELSE meta[u]]

-----------------------------------------------------------------------------
(* A hook *)

\* gen_certs: new keys and a new CA each time.
GenCerts == issued + 1

\* mutation: what StoredState holds is not looked at
GenCertsAnew(u) == GenCerts

\* mutation: a unit without certificates takes the one the cluster trusts
GenCertsUntrusted(u) ==
    IF stored[u] # NoCert THEN stored[u]
    ELSE IF caBundle["mutating"] = NoCert THEN GenCerts ELSE caBundle["mutating"]

\* The three attributes cert, ca and key are generated and kept together.
GenCertsIfMissing(u) == IF stored[u] = NoCert THEN GenCerts ELSE stored[u]

NotStarted == [c \in Components |-> "pending"]

\* The hook is over, whatever its outcome: its working state is gone.
Unwind(u, outcome) ==
    /\ pc' = [pc EXCEPT ![u] = outcome]
    /\ certs' = [certs EXCEPT ![u] = NoCert]
    /\ st' = [st EXCEPT ![u] = NotStarted]
    /\ meta' = [meta EXCEPT ![u] = NoData]

\* Juju may hand event e to unit u: a failed hook is retried before any
\* other, a relation is created before it changes, removal comes last.
Deliverable(u, e) ==
    \/ pc[u] = "error" /\ e = ev[u]
    \/ /\ pc[u] = "idle"
       /\ e \in todo[u]
       /\ e.kind \in {"changed", "broken"} => Created(e.rel) \notin todo[u]
       /\ e.kind = "remove" => todo[u] = {e}

\* Juju starts a hook; charm.py builds the charm, certificates included.
Dispatch(u, e) ==
    /\ u \in members
    /\ Deliverable(u, e)
    /\ todo' = [todo EXCEPT ![u] = @ \ {e}]
    /\ ev' = [ev EXCEPT ![u] = e]
    /\ seen' = [seen EXCEPT ![u] =
                  CASE e.kind = "created" -> @ \cup {e.rel}
                    [] e.kind = "broken" -> @ \ {e.rel}
                    [] OTHER -> @]
    /\ certs' = [certs EXCEPT ![u] = GenCertsIfMissing(u)]
    /\ issued' = IF certs'[u] > issued THEN certs'[u] ELSE issued
    /\ pc' = [pc EXCEPT ![u] = CASE Reconciles(e) -> "kubernetes"
                                 [] e.kind = "remove" -> "remove"
                                 [] OTHER -> "finish"]
    /\ UNCHANGED <<juju, pod, cluster, st, meta, spent>>

\* mutation: only the first n - 1 webhook configurations take the CA
AppliedButLast(b, c, n) == [w \in Resources |-> IF Position(Webhooks, w) < n THEN c ELSE b[w]]

\* The CA bundles b after the first n webhook configurations were applied
\* with CA c, and the files b after the first n were written from c.
Applied(b, c, n) == [w \in Resources |-> IF Position(Webhooks, w) <= n THEN c ELSE b[w]]
Pushed(b, c, n)  == [f \in CertFiles |-> IF Position(Files, f) <= n THEN c ELSE b[f]]

Following(c) ==
    CASE c = "kubernetes"   -> "service-mesh"
      [] c = "service-mesh" -> "pebble"
      [] c = "pebble"       -> "finish"

\* The component at pc[u] is done with status s; the hook goes on.
Executed(u, s) ==
    /\ st' = [st EXCEPT ![u][pc[u]] = s]
    /\ pc' = [pc EXCEPT ![u] = Following(pc[u])]

\* A component whose dependencies are not active is passed over.
PassOver(u) ==
    /\ pc[u] \in {"kubernetes", "service-mesh", "pebble"}
    /\ ~Ready(u, pc[u])
    /\ pc' = [pc EXCEPT ![u] = Following(pc[u])]
    /\ UNCHANGED <<juju, seen, todo, pod, cluster, ev, certs, st, meta, issued,
                   spent>>

\* KubernetesComponent renders the webhooks with the CA of this dispatch.
ApplyResources(u) ==
    /\ pc[u] = "kubernetes"
    /\ Ready(u, "kubernetes")
    /\ caBundle' = Applied(caBundle, certs[u], Len(Webhooks))
    /\ Executed(u, "active")
    /\ UNCHANGED <<juju, seen, todo, pod, allowAll, ev, certs, meta, issued,
                   spent>>

\* ServiceMeshComponent._configure_app_leader, then get_status.
ReconcileMesh(u) ==
    /\ pc[u] = "service-mesh"
    /\ Ready(u, "service-mesh")
    /\ allowAll' = AmbientMeshEnabled(u)
    /\ meta' = [meta EXCEPT ![u] = ReadMetadata(u)]
    /\ Executed(u, MeshStatus(u, ReadMetadata(u)))
    /\ UNCHANGED <<juju, seen, todo, pod, caBundle, ev, certs, issued, spent>>

\* Pebble does not answer: the component waits.
PebbleNotReady(u) ==
    /\ pc[u] = "pebble"
    /\ Ready(u, "pebble")
    /\ ~connected[u]
    /\ Executed(u, "waiting")
    /\ UNCHANGED <<juju, seen, todo, pod, cluster, ev, certs, meta, issued,
                   spent>>

\* The files are pushed, then the layer goes to Pebble, which restarts the
\* service if it differs.
UpdatePebble(u) ==
    /\ pc[u] = "pebble"
    /\ Ready(u, "pebble")
    /\ connected[u]
    /\ files' = [files EXCEPT ![u] = Pushed(@, certs[u], Len(Files))]
    /\ plan' = [plan EXCEPT ![u] = GetLayer(u)]
    /\ Executed(u, "active")
    /\ UNCHANGED <<juju, seen, todo, stored, connected, status, cluster, ev,
                   certs, meta, issued, spent>>

\* The hook ends: the reconciler sets the unit status, StoredState commits.
Finish(u) ==
    /\ pc[u] = "finish"
    /\ status' = [status EXCEPT ![u] = IF Reconciles(ev[u]) THEN UnitStatus(u)
                                                            ELSE @]
    /\ stored' = [stored EXCEPT ![u] = certs[u]]
    /\ ev' = [ev EXCEPT ![u] = NoEvent]
    /\ Unwind(u, "idle")
    /\ UNCHANGED <<juju, seen, todo, connected, files, plan, cluster, issued,
                   spent>>

\* The remove hook runs remove() of every component, then the unit is gone.
RemoveComponents(u) ==
    /\ pc[u] = "remove"
    /\ caBundle' = [w \in Resources |-> NoCert]
    /\ allowAll' = FALSE
    /\ members' = members \ {u}
    /\ seen' = [seen EXCEPT ![u] = {}]
    /\ stored' = [stored EXCEPT ![u] = NoCert]
    /\ connected' = [connected EXCEPT ![u] = FALSE]
    /\ files' = [files EXCEPT ![u] = [f \in CertFiles |-> NoCert]]
    /\ plan' = [plan EXCEPT ![u] = NoPlan]
    /\ ev' = [ev EXCEPT ![u] = NoEvent]
    /\ Unwind(u, "idle")
    /\ UNCHANGED <<leader, rel, metadata, todo, status, issued, spent>>

-----------------------------------------------------------------------------
(* The environment: Juju, Kubernetes and Pebble *)

Spend(k) ==
    /\ spent[k] < Limit[k]
    /\ spent' = [spent EXCEPT ![k] = @ + 1]

Leaving(u) == Removal \in todo[u] \/ ev[u] = Removal
Staying    == {u \in members : ~Leaving(u)}

\* An API call of the hook raises: some of what the component writes may be
\* in place, and nothing of StoredState is committed.
HookFails(u) ==
    /\ Spend("fault")
    /\ pc[u] \notin {"idle", "error"}
    /\ \/ UNCHANGED <<caBundle, files>>
       \/ /\ pc[u] = "kubernetes" /\ Ready(u, "kubernetes")
          /\ \E n \in 1 .. Len(Webhooks) : caBundle' = Applied(caBundle, certs[u], n)
          /\ UNCHANGED files
       \/ /\ pc[u] = "pebble" /\ Ready(u, "pebble") /\ connected[u]
          /\ \E n \in 1 .. Len(Files) :
               files' = [files EXCEPT ![u] = Pushed(@, certs[u], n)]
          /\ UNCHANGED caBundle
    /\ Unwind(u, "error")
    /\ UNCHANGED <<juju, seen, todo, stored, connected, plan, status, allowAll,
                   ev, issued>>

\* A unit that gains leadership runs leader-elected.  The lease outlasts the
\* calls of one component, so leadership moves between components only.
BecomeLeader(u) ==
    /\ u \in Staying \ {leader}
    /\ leader' = u
    /\ todo' = [todo EXCEPT ![u] = @ \cup {Lifecycle}]
    /\ UNCHANGED <<members, rel, metadata, seen, pod, cluster, hook, issued>>

LeadershipMoves(u) == Spend("leader") /\ BecomeLeader(u)
LeaseExpires(u)    == leader \notin members /\ BecomeLeader(u) /\ UNCHANGED spent

\* update-status, config-changed and the like.
UpdateStatus(u) ==
    /\ Spend("tick")
    /\ u \in Staying
    /\ todo' = [todo EXCEPT ![u] = @ \cup {Lifecycle}]
    /\ UNCHANGED <<juju, seen, pod, cluster, hook, issued>>

\* juju integrate: every unit creates the relation, then hears of the
\* remote units.
Relate(r) ==
    /\ Spend("relate")
    /\ rel[r] = "absent"
    /\ rel' = [rel EXCEPT ![r] = "alive"]
    /\ todo' = [u \in Units |-> IF u \in Staying
                                  THEN todo[u] \cup {Created(r), Changed(r)}
                                  ELSE todo[u]]
    /\ UNCHANGED <<members, leader, metadata, seen, pod, cluster, hook, issued>>

PublishMetadata(g) ==
    /\ Spend("publish")
    /\ rel[GatewayMetadata] = "alive"
    /\ metadata # g
    /\ metadata' = g
    /\ todo' = [u \in Units |-> IF u \in Staying
                                  THEN todo[u] \cup {Changed(GatewayMetadata)}
                                  ELSE todo[u]]
    /\ UNCHANGED <<members, leader, rel, seen, pod, cluster, hook, issued>>

\* juju remove-relation: units that have created the relation will break it,
\* the others never hear of it.
BreakRelation(r) ==
    /\ Spend("break")
    /\ rel[r] = "alive"
    /\ rel' = [rel EXCEPT ![r] = "dying"]
    /\ todo' = [u \in Units |->
                  IF u \in Staying
                    THEN (todo[u] \ {Created(r), Changed(r)})
                           \cup (IF r \in seen[u] THEN {Broken(r)} ELSE {})
                    ELSE todo[u]]
    /\ UNCHANGED <<members, leader, metadata, seen, pod, cluster, hook, issued>>

\* Juju removes the relation once no unit is in its scope.
RelationGone(r) ==
    /\ rel[r] = "dying"
    /\ \A u \in Units : r \notin seen[u] /\ ev[u] # Broken(r)
    /\ rel' = [rel EXCEPT ![r] = "absent"]
    /\ metadata' = IF r = GatewayMetadata THEN NoData ELSE metadata
    /\ UNCHANGED <<members, leader, seen, todo, pod, cluster, hook, issued, spent>>

\* The workload container restarts: its files and the Pebble plan are gone.
LoseContainer(u) ==
    /\ u \in members
    /\ connected' = [connected EXCEPT ![u] = FALSE]
    /\ files' = [files EXCEPT ![u] = [f \in CertFiles |-> NoCert]]
    /\ plan' = [plan EXCEPT ![u] = NoPlan]
    /\ UNCHANGED <<juju, seen, status, cluster, ev, issued>>

ContainerRestarts(u) ==
    /\ Spend("restart")
    /\ LoseContainer(u)
    /\ UNCHANGED <<todo, stored, pc, certs, st, meta>>

\* The pod is rescheduled: StoredState is lost with the charm container, and
\* so is the hook that was running.
PodChurn(u) ==
    /\ Spend("churn")
    /\ LoseContainer(u)
    /\ stored' = [stored EXCEPT ![u] = NoCert]
    /\ todo' = [todo EXCEPT ![u] = IF Leaving(u) THEN @ ELSE @ \cup {Lifecycle}]
    /\ Unwind(u, IF pc[u] = "idle" THEN "idle" ELSE "error")

\* Pebble answers (again); Juju queues pebble-ready.
PebbleReady(u) ==
    /\ u \in members
    /\ ~connected[u]
    /\ connected' = [connected EXCEPT ![u] = TRUE]
    /\ todo' = [todo EXCEPT ![u] = IF Leaving(u) THEN @ ELSE @ \cup {Lifecycle}]
    /\ UNCHANGED <<juju, seen, stored, files, plan, status, cluster, hook, issued,
                   spent>>

\* juju remove-unit: the unit leaves its relations and is then removed.
ScaleDown(u) ==
    /\ Spend("remove")
    /\ u \in Staying
    /\ Staying # {u}
    /\ todo' = [todo EXCEPT ![u] = {Broken(r) : r \in seen[u]} \cup {Removal}]
    /\ UNCHANGED <<juju, seen, pod, cluster, hook, issued>>

-----------------------------------------------------------------------------
Init ==
    /\ members = Units
    /\ leader \in Units
    /\ rel = [r \in Relations |-> "absent"]
    /\ metadata = NoData
    /\ seen = [u \in Units |-> {}]
    /\ todo = [u \in Units |-> {Lifecycle}]
    /\ stored = [u \in Units |-> NoCert]
    /\ connected = [u \in Units |-> FALSE]
    /\ files = [u \in Units |-> [f \in CertFiles |-> NoCert]]
    /\ plan = [u \in Units |-> NoPlan]
    /\ status = [u \in Units |-> "pending"]
    /\ caBundle = [w \in Resources |-> NoCert]
    /\ allowAll = FALSE
    /\ pc = [u \in Units |-> "idle"]
    /\ ev = [u \in Units |-> NoEvent]
    /\ certs = [u \in Units |-> NoCert]
    /\ st = [u \in Units |-> NotStarted]
    /\ meta = [u \in Units |-> NoData]
    /\ issued = 0
    /\ spent = [k \in EnvSteps |-> 0]

\* What unit u's charm does.
HookStep(u) ==
    \/ \E e \in Event : Dispatch(u, e)
    \/ PassOver(u)
    \/ ApplyResources(u)
    \/ ReconcileMesh(u)
    \/ PebbleNotReady(u)
    \/ UpdatePebble(u)
    \/ Finish(u)
    \/ RemoveComponents(u)

Environment ==
    \/ \E u \in Units :
         \/ HookFails(u)
         \/ LeadershipMoves(u)
         \/ LeaseExpires(u)
         \/ UpdateStatus(u)
         \/ ContainerRestarts(u)
         \/ PodChurn(u)
         \/ PebbleReady(u)
         \/ ScaleDown(u)
    \/ \E r \in Relations : Relate(r) \/ BreakRelation(r) \/ RelationGone(r)
    \/ \E g \in Gateways : PublishMetadata(g)

Next == Environment \/ \E u \in Units : HookStep(u)

\* Hooks that Juju has queued run and failed ones are retried; Pebble comes
\* up, a dying relation goes away, a lapsed lease is claimed.
Fairness ==
    /\ \A u \in Units :
         /\ WF_vars(HookStep(u))
         /\ WF_vars(PebbleReady(u))
         /\ WF_vars(LeaseExpires(u))
    /\ \A r \in Relations : WF_vars(RelationGone(r))

Spec     == Init /\ [][Next]_vars
FairSpec == Spec /\ Fairness

-----------------------------------------------------------------------------
(* Properties *)

\* Every variable keeps its type; in particular the layer given to Pebble
\* always names a gateway (PvcViewerInputs has no empty fields).
TypeOK ==
    /\ members \subseteq Units
    /\ leader \in Units
    /\ rel \in [Relations -> {"absent", "alive", "dying"}]
    /\ metadata \in Gateways \cup {NoData}
    /\ seen \in [Units -> SUBSET Relations]
    /\ todo \in [Units -> SUBSET Event]
    /\ stored \in [Units -> Nat]
    /\ connected \in [Units -> BOOLEAN]
    /\ files \in [Units -> [CertFiles -> Nat]]
    /\ plan \in [Units -> Layers \cup {NoPlan}]
    /\ status \in [Units -> Statuses]
    /\ caBundle \in [Resources -> Nat]
    /\ allowAll \in BOOLEAN
    /\ pc \in [Units -> {"idle", "error", "kubernetes", "service-mesh",
                         "pebble", "finish", "remove"}]
    /\ ev \in [Units -> Event \cup {NoEvent}]
    /\ certs \in [Units -> Nat]
    /\ st \in [Units -> [Components -> Statuses]]
    /\ meta \in [Units -> Gateways \cup {NoData}]
    /\ issued \in Nat
    /\ spent \in [EnvSteps -> Nat]

\* The leader has handled every event it was given and reports active, with
\* a workload container that answers.
LeaderSettled ==
    /\ leader \in members
    /\ pc[leader] = "idle"
    /\ todo[leader] = {}
    /\ connected[leader]
    /\ status[leader] = "active"

\* Once the leader has settled, the API server trusts exactly the
\* certificate that the leader's workload serves, and it is the one a later
\* hook will find in StoredState, whatever handovers, retries and restarts
\* came before (charm.py: the same _stored.ca renders the webhooks and fills
\* the pushed files), as long as no unit was removed: its remove hook takes the
\* certificates out of the webhooks.
TrustAtActive ==
    LeaderSettled /\ spent["remove"] = 0 =>
        /\ stored[leader] # NoCert
        /\ \A w \in Resources : caBundle[w] = stored[leader]
        /\ \A f \in CertFiles : files[leader][f] = stored[leader]

\* Seen from its certificates alone, the charm does what WebhookTrust allows:
\* StoredState, the files of the pods and the webhooks are written in no other
\* way, failing, retried and interrupted hooks included.
Trust == INSTANCE WebhookTrust WITH held <- certs, kept <- stored, served <- files,
            trusted <- caBundle, Webhooks <- Resources, Files <- CertFiles
TrustImplemented == Trust!Spec

\* No two units ever have a certificate in common (CertificatesOwn there).
CertificatesOwn == Trust!CertificatesOwn

\* Once the leader has settled, the workload's mesh mode, the gateway it is
\* told, the allow-all policy and the relations all say the same.
SettledModeAgrees ==
    LeaderSettled =>
        LET ambient == rel[GatewayMetadata] = "alive"
        IN  /\ allowAll = ambient
            /\ plan[leader] = [ambient |-> ambient,
                               gateway |-> IF ambient THEN metadata
                                                      ELSE DefaultGateway]

\* No workload ever runs in ambient mode against the sidecar default gateway,
\* or in sidecar mode against a gateway of the relation: the defaults of
\* get_gateway_metadata never meet is_ambient_mesh_enabled.
PlanNeverMixed ==
    \A u \in Units : plan[u] # NoPlan =>
        (plan[u].ambient <=> plan[u].gateway # DefaultGateway)

\* While no unit is being removed, only a hook that holds leadership changes
\* the webhooks' trust or the allow-all policy, two units never do both at a
\* time (the leadership gate and what depends on it).
LeaderOnlyWrites ==
    [][cluster' # cluster =>
          \E u \in Units : pc'[u] # pc[u] /\ (leader = u \/ pc[u] = "remove")]_vars

\* The environment having calmed down, the application reaches and keeps a
\* state in which the leader has settled or waits for what only another
\* charm can provide: metadata, or the gateway relation (get_status).
Converges ==
    <>[](\/ LeaderSettled /\ TrustAtActive /\ SettledModeAgrees
         \/ rel[GatewayMetadata] = "alive" /\ metadata = NoData
         \/ rel[GatewayMetadata] # "alive" /\ rel[ServiceMesh] = "alive")

\* "Remove all policies on charm removal." (service_mesh_component.py:134):
\* a unit that leaves while others stay leaves the policies alone.
PoliciesRemovedWithCharm ==
    [][members' # members /\ members' # {} => allowAll' = allowAll]_vars
=============================================================================
