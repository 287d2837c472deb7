------------------------ MODULE PvcViewerCharm_proofs ------------------------
(* What TLAPS proves of the charm, for any number of units, any gateways and *)
(* any number of environment steps.                                          *)
EXTENDS PvcViewerCharm, TLAPS

\* Events are events.
LEMMA EventTypes ==
    /\ Lifecycle \in Event /\ Removal \in Event
    /\ \A r \in Relations : /\ Created(r) \in Event
                            /\ Changed(r) \in Event
                            /\ Broken(r) \in Event
  BY DEF Event, RelationEvent, Lifecycle, Removal, Created, Changed, Broken

\* The initial state is well typed.
LEMMA InitTypeOK == Init => TypeOK
<1> SUFFICES ASSUME Init PROVE TypeOK
  OBVIOUS
<1>1. NotStarted \in [Components -> Statuses]
  BY DEF NotStarted, Statuses
<1>2. /\ members \subseteq Units /\ leader \in Units
      /\ rel \in [Relations -> {"absent", "alive", "dying"}]
      /\ metadata \in Gateways \cup {NoData}
      /\ seen \in [Units -> SUBSET Relations]
      /\ todo \in [Units -> SUBSET Event]
  BY EventTypes DEF Init
<1>3. /\ stored \in [Units -> Nat] /\ connected \in [Units -> BOOLEAN]
      /\ files \in [Units -> [CertFiles -> Nat]]
      /\ plan \in [Units -> Layers \cup {NoPlan}]
      /\ status \in [Units -> Statuses]
      /\ caBundle \in [Resources -> Nat] /\ allowAll \in BOOLEAN
  BY DEF Init, NoCert, Statuses
<1>4. /\ pc \in [Units -> {"idle", "error", "kubernetes", "service-mesh",
                           "pebble", "finish", "remove"}]
      /\ ev \in [Units -> Event \cup {NoEvent}]
      /\ certs \in [Units -> Nat]
      /\ st \in [Units -> [Components -> Statuses]]
      /\ meta \in [Units -> Gateways \cup {NoData}]
      /\ issued \in Nat /\ spent \in [EnvSteps -> Nat]
  BY <1>1 DEF Init, NoCert
<1>5. QED BY <1>2, <1>3, <1>4 DEF TypeOK

\* What a hook computes is well typed.
LEMMA OperatorTypes ==
    ASSUME TypeOK, NEW u \in Units
    PROVE  /\ GenCertsIfMissing(u) \in Nat
           /\ ReadMetadata(u) \in Gateways \cup {NoData}
           /\ AmbientMeshEnabled(u) \in BOOLEAN
           /\ GetLayer(u) \in Layers
           /\ UnitStatus(u) \in Statuses
           /\ NotStarted \in [Components -> Statuses]
           /\ \A m : MeshStatus(u, m) \in Statuses
<1>1. MeshStatus(u, ReadMetadata(u)) \in Statuses /\ UnitStatus(u) \in Statuses
  BY DEF MeshStatus, UnitStatus, Statuses
<1>2. \A m : MeshStatus(u, m) \in Statuses
  BY DEF MeshStatus, Statuses
<1>3. GetLayer(u) \in Layers
  BY DEF GetLayer, Layers, TypeOK
<1>4. GenCertsIfMissing(u) \in Nat
  BY DEF GenCertsIfMissing, GenCerts, TypeOK, NoCert
<1>5. QED
  BY <1>1, <1>2, <1>3, <1>4 DEF ReadMetadata, AmbientMeshEnabled, NotStarted,
     Statuses, TypeOK

\* A prefix of the webhooks, or of the files, written from a certificate.
LEMMA PrefixTypes ==
    ASSUME NEW c \in Nat, NEW n
    PROVE  /\ \A b \in [Resources -> Nat] : Applied(b, c, n) \in [Resources -> Nat]
           /\ \A b \in [CertFiles -> Nat] : Pushed(b, c, n) \in [CertFiles -> Nat]
  BY DEF Applied, Pushed

\* The end of a hook leaves its working state well typed.
LEMMA UnwindType ==
    ASSUME TypeOK, NEW u \in Units, NEW o \in {"idle", "error"}, Unwind(u, o)
    PROVE  /\ pc' \in [Units -> {"idle", "error", "kubernetes", "service-mesh",
                                 "pebble", "finish", "remove"}]
           /\ certs' \in [Units -> Nat]
           /\ st' \in [Units -> [Components -> Statuses]]
           /\ meta' \in [Units -> Gateways \cup {NoData}]
  BY OperatorTypes DEF TypeOK, Unwind, NoCert

\* A component's turn is recorded with a status and a next step.
LEMMA ExecutedType ==
    ASSUME TypeOK, NEW u \in Units, NEW s \in Statuses,
           pc[u] \in {"kubernetes", "service-mesh", "pebble"}, Executed(u, s)
    PROVE  /\ pc' \in [Units -> {"idle", "error", "kubernetes", "service-mesh",
                                 "pebble", "finish", "remove"}]
           /\ st' \in [Units -> [Components -> Statuses]]
  BY DEF TypeOK, Executed, Following, Components

LEMMA HookStepTypeOK ==
    ASSUME TypeOK, NEW u \in Units, HookStep(u)
    PROVE  TypeOK'
<1> USE DEF juju, pod, cluster, hook
<1>1. ASSUME NEW e \in Event, Dispatch(u, e) PROVE TypeOK'
  <2>1. certs' \in [Units -> Nat] /\ certs'[u] \in Nat
    BY <1>1, OperatorTypes DEF Dispatch, TypeOK
  <2>2. seen' \in [Units -> SUBSET Relations]
    <3>1. e.kind = "created" => e.rel \in Relations
      BY DEF Event, RelationEvent, Lifecycle, Removal
    <3>2. QED BY <3>1, <1>1 DEF Dispatch, TypeOK
  <2>3. QED BY <1>1, <2>1, <2>2 DEF Dispatch, TypeOK
<1>2. CASE PassOver(u) BY <1>2 DEF PassOver, Following, TypeOK
<1>3. CASE ApplyResources(u)
  <2>1. caBundle' \in [Resources -> Nat]
    BY <1>3, PrefixTypes DEF ApplyResources, TypeOK
  <2>2. QED BY <1>3, <2>1, ExecutedType DEF ApplyResources, TypeOK, Statuses, Components
<1>4. CASE ReconcileMesh(u)
  BY <1>4, OperatorTypes, ExecutedType DEF ReconcileMesh, TypeOK, Components
<1>5. CASE PebbleNotReady(u)
  BY <1>5, ExecutedType DEF PebbleNotReady, TypeOK, Statuses, Components
<1>6. CASE UpdatePebble(u)
  <2>1. files' \in [Units -> [CertFiles -> Nat]]
    BY <1>6, PrefixTypes DEF UpdatePebble, TypeOK
  <2>2. plan' \in [Units -> Layers \cup {NoPlan}]
    BY <1>6, OperatorTypes DEF UpdatePebble, TypeOK
  <2>3. QED BY <1>6, <2>1, <2>2, ExecutedType DEF UpdatePebble, TypeOK, Statuses, Components
<1>7. CASE Finish(u)
  BY <1>7, OperatorTypes, UnwindType DEF Finish, TypeOK
<1>8. CASE RemoveComponents(u)
  BY <1>8, UnwindType DEF RemoveComponents, TypeOK, NoCert
<1>9. QED BY <1>1, <1>2, <1>3, <1>4, <1>5, <1>6, <1>7, <1>8 DEF HookStep

LEMMA EnvironmentTypeOK ==
    ASSUME TypeOK, Environment
    PROVE  TypeOK'
<1> USE DEF juju, pod, cluster, hook
<1>1. ASSUME NEW k \in EnvSteps, Spend(k) PROVE spent' \in [EnvSteps -> Nat]
  BY <1>1 DEF Spend, TypeOK
<1> USE DEF EnvSteps
<1>2. ASSUME NEW u \in Units, HookFails(u) PROVE TypeOK'
  <2>1. certs[u] \in Nat BY DEF TypeOK
  <2> DEFINE WritesTyped ==
        caBundle' \in [Resources -> Nat] /\ files' \in [Units -> [CertFiles -> Nat]]
  <2>2. WritesTyped
    <3>1. CASE UNCHANGED <<caBundle, files>> BY <3>1 DEF TypeOK
    <3>2. ASSUME NEW n \in Nat, caBundle' = Applied(caBundle, certs[u], n), files' = files
          PROVE  WritesTyped
      BY <2>1, <3>2, PrefixTypes DEF TypeOK
    <3>3. ASSUME NEW n \in Nat, caBundle' = caBundle,
                 files' = [files EXCEPT ![u] = Pushed(files[u], certs[u], n)]
          PROVE  WritesTyped
      BY <2>1, <3>3, PrefixTypes DEF TypeOK
    <3>4. 1 .. Len(Webhooks) \subseteq Nat /\ 1 .. Len(Files) \subseteq Nat
      BY DEF Webhooks, Files
    <3>5. QED BY <1>2, <3>1, <3>2, <3>3, <3>4 DEF HookFails
  <2>3. spent' \in [EnvSteps -> Nat] BY <1>1, <1>2 DEF HookFails
  <2>4. Unwind(u, "error") BY <1>2 DEF HookFails
  <2>5. /\ UNCHANGED <<members, leader, rel, metadata, seen, todo, stored, connected,
                       plan, status, allowAll, ev, issued>>
    BY <1>2 DEF HookFails
  <2>6. QED BY <2>2, <2>3, <2>4, <2>5, UnwindType DEF TypeOK
<1>3. ASSUME NEW u \in Units, BecomeLeader(u), spent' \in [EnvSteps -> Nat]
      PROVE  TypeOK'
  BY <1>3, EventTypes DEF BecomeLeader, TypeOK
<1>4. ASSUME NEW u \in Units, LeadershipMoves(u) \/ LeaseExpires(u) PROVE TypeOK'
  BY <1>1, <1>3, <1>4 DEF LeadershipMoves, LeaseExpires, TypeOK
<1>5. ASSUME NEW u \in Units, UpdateStatus(u) PROVE TypeOK'
  BY <1>1, <1>5, EventTypes DEF UpdateStatus, TypeOK
<1>6. ASSUME NEW u \in Units, LoseContainer(u)
      PROVE  /\ connected' \in [Units -> BOOLEAN]
             /\ files' \in [Units -> [CertFiles -> Nat]]
             /\ plan' \in [Units -> Layers \cup {NoPlan}]
  BY <1>6 DEF LoseContainer, TypeOK, NoCert
<1>7. ASSUME NEW u \in Units, ContainerRestarts(u) PROVE TypeOK'
  BY <1>1, <1>6, <1>7 DEF ContainerRestarts, LoseContainer, TypeOK
<1>8. ASSUME NEW u \in Units, PodChurn(u) PROVE TypeOK'
  BY <1>1, <1>6, <1>8, EventTypes, UnwindType DEF PodChurn, LoseContainer, TypeOK, NoCert
<1>9. ASSUME NEW u \in Units, PebbleReady(u) PROVE TypeOK'
  BY <1>9, EventTypes DEF PebbleReady, TypeOK
<1>10. ASSUME NEW u \in Units, ScaleDown(u) PROVE TypeOK'
  BY <1>1, <1>10, EventTypes DEF ScaleDown, TypeOK
<1>11. ASSUME NEW r \in Relations, Relate(r) PROVE TypeOK'
  <2>1. spent' \in [EnvSteps -> Nat] BY <1>1, <1>11 DEF Relate
  <2>2. rel' \in [Relations -> {"absent", "alive", "dying"}]
    BY <1>11 DEF Relate, TypeOK
  <2>3. todo' \in [Units -> SUBSET Event]
    BY <1>11, EventTypes DEF Relate, TypeOK
  <2>4. QED BY <1>11, <2>1, <2>2, <2>3 DEF Relate, TypeOK
<1>12. ASSUME NEW r \in Relations, BreakRelation(r) PROVE TypeOK'
  <2>1. spent' \in [EnvSteps -> Nat] BY <1>1, <1>12 DEF BreakRelation
  <2>2. rel' \in [Relations -> {"absent", "alive", "dying"}]
    BY <1>12 DEF BreakRelation, TypeOK
  <2>3. todo' \in [Units -> SUBSET Event]
    BY <1>12, EventTypes DEF BreakRelation, TypeOK
  <2>4. QED BY <1>12, <2>1, <2>2, <2>3 DEF BreakRelation, TypeOK
<1>13. ASSUME NEW r \in Relations, RelationGone(r) PROVE TypeOK'
  BY <1>13 DEF RelationGone, TypeOK
<1>14. ASSUME NEW g \in Gateways, PublishMetadata(g) PROVE TypeOK'
  <2>1. todo' \in [Units -> SUBSET Event]
    BY <1>14, EventTypes DEF PublishMetadata, TypeOK, Relations
  <2>2. QED BY <1>1, <1>14, <2>1 DEF PublishMetadata, TypeOK
<1>15. QED
  BY <1>2, <1>4, <1>5, <1>7, <1>8, <1>9, <1>10, <1>11, <1>12, <1>13, <1>14
     DEF Environment

\* Every step of the charm and of its environment keeps the types.
LEMMA NextTypeOK == TypeOK /\ [Next]_vars => TypeOK'
<1>1. CASE UNCHANGED vars
  BY <1>1 DEF vars, juju, pod, cluster, hook, TypeOK
<1>2. QED BY <1>1, HookStepTypeOK, EnvironmentTypeOK DEF Next

\* The state of the charm stays well typed; in particular a layer handed to
\* Pebble always names a gateway (pebble_component.py: PvcViewerInputs).
THEOREM TypeCorrect == Spec => []TypeOK
<1>1. QED BY InitTypeOK, NextTypeOK, PTL DEF Spec

-----------------------------------------------------------------------------
(* The mesh mode.  PlanNeverMixed is not inductive: the layer is computed     *)
(* from the relations the hook sees and from metadata it read one component   *)
(* earlier, so the two must be known to agree in between.                     *)

\* Until its turn has come the service-mesh component has no status, and
\* while pebble has its turn behind an active service-mesh component the hook
\* has metadata exactly if it sees the relation.
MetadataRead ==
    \A u \in Units :
        /\ pc[u] \notin {"pebble", "finish"} => st[u]["service-mesh"] = "pending"
        /\ pc[u] = "pebble" /\ st[u]["service-mesh"] = "active" =>
             (meta[u] # NoData <=> GatewayMetadata \in seen[u])

ModeInv == TypeOK /\ MetadataRead /\ PlanNeverMixed

\* Unit u's plan and its knowledge of the mesh are as before.
HookKept(u) ==
    /\ pc'[u] = pc[u] /\ st'[u] = st[u] /\ meta'[u] = meta[u] /\ seen'[u] = seen[u]

\* Unit u's hook has ended, or goes on outside the service mesh's concern.
HookElsewhere(u) ==
    /\ pc'[u] # "pebble"
    /\ pc'[u] # "finish" => st'[u]["service-mesh"] = "pending"

\* The steps that leave plans alone or lose them.
LEMMA ModeFrame ==
    ASSUME ModeInv, TypeOK',
           \A u \in Units : plan'[u] \in {plan[u], NoPlan},
           \A u \in Units : HookKept(u) \/ HookElsewhere(u)
    PROVE  ModeInv'
  BY DEF ModeInv, MetadataRead, PlanNeverMixed, HookKept, HookElsewhere

\* A hook that ends has no working state left.
LEMMA ModeUnwind ==
    ASSUME TypeOK, NEW u \in Units, NEW o \in {"idle", "error"}, Unwind(u, o),
           \A v \in Units \ {u} : seen'[v] = seen[v]
    PROVE  \A v \in Units : HookKept(v) \/ HookElsewhere(v)
<1>1. HookElsewhere(u)
  BY DEF Unwind, HookElsewhere, TypeOK, NotStarted, Components
<1>2. \A v \in Units \ {u} : HookKept(v)
  BY DEF Unwind, HookKept, TypeOK
<1>3. QED BY <1>1, <1>2

\* A component passed over leaves the hook's knowledge of the mesh alone.
LEMMA ModePassOver ==
    ASSUME ModeInv, TypeOK', NEW u \in Units, PassOver(u)
    PROVE  ModeInv'
<1>1. \A v \in Units : plan'[v] = plan[v] /\ seen'[v] = seen[v] /\ st'[v] = st[v]
                         /\ meta'[v] = meta[v]
  BY DEF PassOver, pod
<1>2. \A v \in Units \ {u} : pc'[v] = pc[v]
  BY DEF PassOver, ModeInv, TypeOK
<1>3. /\ pc'[u] \in {"service-mesh", "pebble", "finish"}
      /\ pc'[u] # "finish" => pc[u] \notin {"pebble", "finish"}
  BY DEF PassOver, Following, ModeInv, TypeOK
<1>4. pc'[u] # "finish" => st'[u]["service-mesh"] = "pending"
  BY <1>1, <1>3 DEF MetadataRead, ModeInv
<1>5. \A v \in Units \ {u} : HookKept(v)
  BY <1>1, <1>2 DEF HookKept
<1>6. MetadataRead'
  BY <1>3, <1>4, <1>5 DEF MetadataRead, ModeInv, HookKept
<1>7. QED BY <1>1, <1>6 DEF ModeInv, PlanNeverMixed

\* ReconcileMesh establishes MetadataRead: an active service mesh means that
\* the metadata was there if the relation was (get_status).
LEMMA ModeReconcileMesh ==
    ASSUME ModeInv, TypeOK', NEW u \in Units, ReconcileMesh(u)
    PROVE  ModeInv'
<1>1. \A v \in Units : plan'[v] = plan[v] /\ seen'[v] = seen[v]
  BY DEF ReconcileMesh, pod
<1>2. \A v \in Units \ {u} : pc'[v] = pc[v] /\ st'[v] = st[v] /\ meta'[v] = meta[v]
  BY DEF ReconcileMesh, Executed, ModeInv, TypeOK
<1>3. /\ meta'[u] = ReadMetadata(u)
      /\ st'[u]["service-mesh"] = MeshStatus(u, ReadMetadata(u))
      /\ pc'[u] = "pebble"
  BY DEF ReconcileMesh, Executed, Following, ModeInv, TypeOK, Components
<1>4. MeshStatus(u, ReadMetadata(u)) = "active" =>
        (ReadMetadata(u) # NoData <=> GatewayMetadata \in seen[u])
  BY DEF MeshStatus, ReadMetadata
<1>5. MetadataRead'
  BY <1>1, <1>2, <1>3, <1>4 DEF MetadataRead, ModeInv
<1>6. PlanNeverMixed'
  BY <1>1 DEF PlanNeverMixed, ModeInv
<1>7. QED BY <1>5, <1>6 DEF ModeInv

\* UpdatePebble runs only behind an active service-mesh component, so the
\* layer it computes is not mixed.
LEMMA ModeUpdatePebble ==
    ASSUME ModeInv, TypeOK', NEW u \in Units, UpdatePebble(u)
    PROVE  ModeInv'
<1>1. st[u]["service-mesh"] = "active"
  BY DEF UpdatePebble, Ready, DependsOn, ComponentStatus
<1>2. meta[u] # NoData <=> GatewayMetadata \in seen[u]
  BY <1>1 DEF UpdatePebble, ModeInv, MetadataRead
<1>3. meta[u] # DefaultGateway
  BY ConstantsAssumption DEF ModeInv, TypeOK
<1>4. GetLayer(u).ambient <=> GetLayer(u).gateway # DefaultGateway
  BY <1>2, <1>3 DEF GetLayer
<1>5. /\ plan'[u] = GetLayer(u)
      /\ \A v \in Units \ {u} : plan'[v] = plan[v]
  BY DEF UpdatePebble, ModeInv, TypeOK
<1>6. PlanNeverMixed'
  BY <1>4, <1>5 DEF PlanNeverMixed, ModeInv
<1>7. \A v \in Units : HookKept(v) \/ HookElsewhere(v)
  BY DEF UpdatePebble, Executed, Following, ModeInv, TypeOK, HookKept, HookElsewhere
<1>8. QED BY <1>6, <1>7 DEF ModeInv, MetadataRead, HookKept, HookElsewhere

LEMMA ModeStep == ModeInv /\ [Next]_vars => ModeInv'
<1> SUFFICES ASSUME ModeInv, [Next]_vars PROVE ModeInv'
  OBVIOUS
<1>1. TypeOK /\ TypeOK' BY NextTypeOK DEF ModeInv
<1> USE DEF juju, pod, cluster, hook
<1>2. CASE UNCHANGED vars BY <1>1, <1>2, ModeFrame DEF vars, HookKept
<1>3. ASSUME NEW u \in Units, HookStep(u) PROVE ModeInv'
  <2>1. ASSUME NEW e \in Event, Dispatch(u, e) PROVE ModeInv'
    <3>1. HookElsewhere(u)
      BY <1>1, <2>1 DEF Dispatch, Deliverable, HookElsewhere, ModeInv, MetadataRead, TypeOK
    <3>2. \A v \in Units \ {u} : HookKept(v)
      BY <1>1, <2>1 DEF Dispatch, HookKept, TypeOK
    <3>3. QED BY <1>1, <2>1, <3>1, <3>2, ModeFrame DEF Dispatch
  <2>2. CASE PassOver(u) BY <1>1, <2>2, ModePassOver
  <2>3. CASE ApplyResources(u)
    <3>1. HookElsewhere(u)
      <4>1. pc[u] = "kubernetes" /\ st[u]["service-mesh"] = "pending"
        BY <2>3 DEF ApplyResources, ModeInv, MetadataRead
      <4>2. pc'[u] = "service-mesh" /\ st'[u] = [st[u] EXCEPT !["kubernetes"] = "active"]
        BY <1>1, <2>3, <4>1 DEF ApplyResources, Executed, Following, TypeOK
      <4>3. st[u] \in [Components -> Statuses] BY DEF TypeOK, ModeInv
      <4>4. QED BY <4>1, <4>2, <4>3 DEF HookElsewhere, Components
    <3>2. \A v \in Units \ {u} : HookKept(v)
      BY <1>1, <2>3 DEF ApplyResources, Executed, HookKept, TypeOK
    <3>3. QED BY <1>1, <2>3, <3>1, <3>2, ModeFrame DEF ApplyResources
  <2>4. CASE ReconcileMesh(u) BY <1>1, <2>4, ModeReconcileMesh
  <2>5. CASE PebbleNotReady(u)
    <3>1. \A v \in Units : HookKept(v) \/ HookElsewhere(v)
      BY <1>1, <2>5 DEF PebbleNotReady, Executed, Following, TypeOK, HookKept, HookElsewhere
    <3>2. QED BY <1>1, <2>5, <3>1, ModeFrame DEF PebbleNotReady
  <2>6. CASE UpdatePebble(u) BY <1>1, <2>6, ModeUpdatePebble
  <2>7. CASE Finish(u) BY <1>1, <2>7, ModeFrame, ModeUnwind DEF Finish
  <2>8. CASE RemoveComponents(u)
    BY <1>1, <2>8, ModeFrame, ModeUnwind DEF RemoveComponents, TypeOK
  <2>9. QED BY <1>3, <2>1, <2>2, <2>3, <2>4, <2>5, <2>6, <2>7, <2>8 DEF HookStep
<1>4. CASE Environment
  <2>1. \A u \in Units : plan'[u] \in {plan[u], NoPlan}
    BY <1>1, <1>4 DEF Environment, HookFails, LeadershipMoves, LeaseExpires,
       BecomeLeader, UpdateStatus, ContainerRestarts, PodChurn, LoseContainer,
       PebbleReady, ScaleDown, Relate, BreakRelation, RelationGone,
       PublishMetadata, TypeOK
  <2>2. \A u \in Units : HookKept(u) \/ HookElsewhere(u)
    <3>1. ASSUME NEW v \in Units, HookFails(v) \/ PodChurn(v)
          PROVE  \A u \in Units : HookKept(u) \/ HookElsewhere(u)
      BY <1>1, <3>1, ModeUnwind DEF HookFails, PodChurn, LoseContainer
    <3>2. CASE UNCHANGED <<hook, seen>> BY <3>2 DEF HookKept
    <3>3. QED
      BY <1>4, <3>1, <3>2 DEF Environment, LeadershipMoves, LeaseExpires,
         BecomeLeader, UpdateStatus, ContainerRestarts, LoseContainer, PebbleReady,
         ScaleDown, Relate, BreakRelation, RelationGone, PublishMetadata
  <2>3. QED BY <1>1, <2>1, <2>2, ModeFrame
<1>5. QED BY <1>2, <1>3, <1>4 DEF Next

\* No workload runs in ambient mode against the default gateway or in
\* sidecar mode against an announced one, with any number of units,
\* handovers, failing hooks and relation changes.
THEOREM ModeNeverMixed == Spec => []PlanNeverMixed
<1>1. Init => ModeInv
  BY InitTypeOK DEF Init, ModeInv, MetadataRead, PlanNeverMixed, NotStarted, Components
<1>2. ModeInv => PlanNeverMixed BY DEF ModeInv
<1>3. QED BY <1>1, <1>2, ModeStep, PTL DEF Spec

-----------------------------------------------------------------------------
\* The webhooks' trust and the allow-all policy change only in the hook of the
\* leader, or in the remove hook of a unit, whoever else is in a hook.
THEOREM OnlyLeaderWrites == Spec => LeaderOnlyWrites
<1>1. TypeOK /\ [Next]_vars =>
        [cluster' # cluster =>
           \E u \in Units : pc'[u] # pc[u] /\ (leader = u \/ pc[u] = "remove")]_vars
  <2> SUFFICES ASSUME TypeOK, Next, cluster' # cluster
               PROVE  \E u \in Units : pc'[u] # pc[u] /\ (leader = u \/ pc[u] = "remove")
    OBVIOUS
  <2>1. ASSUME NEW u \in Units, Ready(u, "kubernetes") \/ Ready(u, "service-mesh")
        PROVE  leader = u
    BY <2>1 DEF Ready, DependsOn, ComponentStatus
  <2>2. ASSUME NEW u \in Units, HookStep(u)
        PROVE  pc'[u] # pc[u] /\ (leader = u \/ pc[u] = "remove")
    <3>1. ApplyResources(u) \/ ReconcileMesh(u) \/ RemoveComponents(u)
      BY <2>2 DEF HookStep, Dispatch, PassOver, PebbleNotReady, UpdatePebble,
         Finish, cluster
    <3>2. QED
      BY <2>1, <3>1 DEF ApplyResources, ReconcileMesh, RemoveComponents,
         Executed, Following, Unwind, TypeOK
  <2>3. ASSUME NEW u \in Units, HookFails(u), caBundle' # caBundle
        PROVE  pc'[u] # pc[u] /\ leader = u
    BY <2>1, <2>3 DEF HookFails, Unwind, TypeOK
  <2>4. CASE Environment
    <3>1. \E u \in Units : HookFails(u) /\ caBundle' # caBundle
      BY <2>4 DEF Environment, HookFails, LeadershipMoves, LeaseExpires, BecomeLeader,
         UpdateStatus, ContainerRestarts, PodChurn, LoseContainer, PebbleReady,
         ScaleDown, Relate, BreakRelation, RelationGone, PublishMetadata, cluster
    <3>2. QED BY <2>3, <3>1
  <2>5. QED BY <2>2, <2>4 DEF Next
<1>2. QED BY <1>1, TypeCorrect, PTL DEF Spec, LeaderOnlyWrites

-----------------------------------------------------------------------------
(* The charm implements WebhookTrust.                                         *)

\* A hook that is under way has a certificate, and none was ever kept or used
\* that was not issued.
CertificatesInv ==
    \A u \in Units :
        /\ pc[u] \in {"idle", "error"} <=> certs[u] = NoCert
        /\ stored[u] <= issued /\ certs[u] <= issued

TrustInv == TypeOK /\ CertificatesInv

\* A dispatch takes the certificate that is kept, or the next one.
LEMMA DispatchHolds ==
    ASSUME TrustInv, NEW u \in Units, NEW e \in Event, Dispatch(u, e)
    PROVE  /\ Trust!Hold(u)
           /\ certs'[u] \in Nat \ {NoCert} /\ certs'[u] <= issued' /\ issued <= issued'
<1>1. /\ certs[u] = NoCert
      /\ certs' = [certs EXCEPT ![u] = IF stored[u] = 0 THEN issued + 1 ELSE stored[u]]
  BY DEF Dispatch, Deliverable, TrustInv, CertificatesInv, TypeOK, GenCertsIfMissing,
     GenCerts, NoCert
<1>2. certs'[u] = IF stored[u] = 0 THEN issued + 1 ELSE stored[u]
  BY <1>1 DEF TrustInv, TypeOK
<1>3. stored[u] \in Nat /\ issued \in Nat /\ stored[u] <= issued
  BY DEF TrustInv, TypeOK, CertificatesInv
<1>4. issued' = IF certs'[u] > issued THEN certs'[u] ELSE issued
  BY DEF Dispatch
<1>5. issued' = IF stored[u] = 0 THEN issued + 1 ELSE issued
  BY <1>2, <1>3, <1>4
<1>6. UNCHANGED <<stored, files, caBundle>>
  BY DEF Dispatch, pod, cluster
<1>7. Trust!Hold(u)
  BY <1>1, <1>5, <1>6 DEF Trust!Hold, Trust!None, NoCert
<1>8. QED BY <1>2, <1>3, <1>5, <1>7 DEF NoCert

\* The end of a hook drops its certificate.
LEMMA CertificatesUnwind ==
    ASSUME TrustInv, TypeOK', NEW u \in Units, NEW o \in {"idle", "error"}, Unwind(u, o),
           issued' = issued, \A v \in Units : stored'[v] \in {stored[v], certs[v], NoCert}
    PROVE  CertificatesInv'
<1>1. \A v \in Units \ {u} : pc'[v] = pc[v] /\ certs'[v] = certs[v]
  BY DEF Unwind, TrustInv, TypeOK
<1>2. pc'[u] = o /\ certs'[u] = 0
  BY DEF Unwind, TrustInv, TypeOK, NoCert
<1>3. /\ issued \in Nat
      /\ \A v \in Units : stored[v] \in Nat /\ certs[v] \in Nat
  BY DEF TrustInv, TypeOK
<1>4. \A v \in Units : stored[v] <= issued /\ certs[v] <= issued
  BY <1>3 DEF TrustInv, CertificatesInv, NoCert
<1>5. \A v \in Units : stored'[v] <= issued'
  BY <1>3, <1>4 DEF NoCert
<1>6. \A v \in Units : certs'[v] <= issued'
  BY <1>1, <1>2, <1>3, <1>4
<1>7. \A v \in Units : pc'[v] \in {"idle", "error"} <=> certs'[v] = NoCert
  BY <1>1, <1>2 DEF TrustInv, CertificatesInv, NoCert
<1>8. QED
  BY <1>5, <1>6, <1>7 DEF CertificatesInv, NoCert

\* A step that leaves certificates alone, and no hook at its end.
LEMMA CertificatesFrame ==
    ASSUME TrustInv, UNCHANGED <<stored, certs, issued>>,
           \A v \in Units : pc'[v] \in {"idle", "error"} <=> pc[v] \in {"idle", "error"}
    PROVE  CertificatesInv'
  BY DEF TrustInv, CertificatesInv

\* A component's turn does not end the hook.
LEMMA ExecutedGoesOn ==
    ASSUME TypeOK, NEW u \in Units, NEW s, pc[u] \in {"kubernetes", "service-mesh", "pebble"},
           pc' = [pc EXCEPT ![u] = Following(pc[u])]
    PROVE  \A v \in Units : pc'[v] \in {"idle", "error"} <=> pc[v] \in {"idle", "error"}
  BY DEF TypeOK, Following

LEMMA CertificatesStep == TrustInv /\ [Next]_vars => TrustInv'
<1> SUFFICES ASSUME TrustInv, [Next]_vars PROVE TrustInv'
  OBVIOUS
<1>1. TypeOK /\ TypeOK' BY NextTypeOK DEF TrustInv
<1> SUFFICES CertificatesInv'
  BY <1>1 DEF TrustInv
<1> USE DEF juju, pod, cluster, hook
<1>2. CASE UNCHANGED vars BY <1>2, CertificatesFrame DEF vars
<1>3. ASSUME NEW u \in Units, HookStep(u) PROVE CertificatesInv'
  <2>1. ASSUME NEW e \in Event, Dispatch(u, e) PROVE CertificatesInv'
    <3>1. \A v \in Units \ {u} : certs'[v] = certs[v] /\ pc'[v] = pc[v]
      BY <1>1, <2>1 DEF Dispatch, TypeOK
    <3>2. pc'[u] \notin {"idle", "error"} /\ stored' = stored
      BY <1>1, <2>1 DEF Dispatch, TypeOK
    <3>3. certs'[u] # NoCert /\ certs'[u] <= issued' /\ issued <= issued'
      BY <2>1, DispatchHolds
    <3>4. \A v \in Units : certs[v] \in Nat /\ stored[v] \in Nat /\ issued \in Nat /\ issued' \in Nat
      BY <1>1 DEF TypeOK
    <3>5. QED BY <3>1, <3>2, <3>3, <3>4 DEF TrustInv, CertificatesInv
  <2>2. CASE PassOver(u)
    BY <1>1, <2>2, CertificatesFrame, ExecutedGoesOn DEF PassOver
  <2>3. CASE ApplyResources(u)
    BY <1>1, <2>3, CertificatesFrame, ExecutedGoesOn DEF ApplyResources, Executed
  <2>4. CASE ReconcileMesh(u)
    BY <1>1, <2>4, CertificatesFrame, ExecutedGoesOn DEF ReconcileMesh, Executed
  <2>5. CASE PebbleNotReady(u)
    BY <1>1, <2>5, CertificatesFrame, ExecutedGoesOn DEF PebbleNotReady, Executed
  <2>6. CASE UpdatePebble(u)
    BY <1>1, <2>6, CertificatesFrame, ExecutedGoesOn DEF UpdatePebble, Executed
  <2>7. CASE Finish(u)
    BY <1>1, <2>7, CertificatesUnwind DEF Finish, TypeOK
  <2>8. CASE RemoveComponents(u)
    BY <1>1, <2>8, CertificatesUnwind DEF RemoveComponents, TypeOK
  <2>9. QED BY <1>3, <2>1, <2>2, <2>3, <2>4, <2>5, <2>6, <2>7, <2>8 DEF HookStep
<1>4. CASE Environment
  <2>1. ASSUME NEW u \in Units, HookFails(u) PROVE CertificatesInv'
    BY <1>1, <2>1, CertificatesUnwind DEF HookFails
  <2>2. ASSUME NEW u \in Units, PodChurn(u) PROVE CertificatesInv'
    BY <1>1, <2>2, CertificatesUnwind DEF PodChurn, LoseContainer, TypeOK
  <2>3. CASE UNCHANGED <<stored, certs, issued, pc>> BY <2>3, CertificatesFrame
  <2>4. QED
    BY <1>4, <2>1, <2>2, <2>3 DEF Environment, LeadershipMoves, LeaseExpires,
       BecomeLeader, UpdateStatus, ContainerRestarts, LoseContainer, PebbleReady,
       ScaleDown, Relate, BreakRelation, RelationGone, PublishMetadata
<1>5. QED BY <1>2, <1>3, <1>4 DEF Next

\* What a component has written of a certificate is overwritten in part or whole.
LEMMA PrefixOverwrites ==
    ASSUME NEW c \in Nat, NEW n
    PROVE  /\ \A b \in [Resources -> Nat] : Applied(b, c, n) \in Trust!Overwritten(b, c, Resources)
           /\ \A b \in [CertFiles -> Nat] : Pushed(b, c, n) \in Trust!Overwritten(b, c, CertFiles)
           /\ \A b \in [Resources -> Nat] : b \in Trust!Overwritten(b, c, Resources)
           /\ \A b \in [CertFiles -> Nat] : b \in Trust!Overwritten(b, c, CertFiles)
  BY DEF Trust!Overwritten, Applied, Pushed

\* Nothing of the files of unit u changes, or they are overwritten in part.
LEMMA WritesTrust ==
    ASSUME TypeOK, NEW u \in Units, certs[u] # NoCert, UNCHANGED <<issued, stored>>,
           caBundle' \in Trust!Overwritten(caBundle, certs[u], Resources),
           NEW n \in Trust!Overwritten(files[u], certs[u], CertFiles),
           files' = [files EXCEPT ![u] = n],
           certs' \in {certs, [certs EXCEPT ![u] = NoCert]}
    PROVE  Trust!Write(u)
  BY DEF Trust!Write, Trust!None, NoCert

\* Every step of the charm and its environment is one of WebhookTrust, or
\* changes nothing that it speaks of.
LEMMA TrustStep == TrustInv /\ [Next]_vars => [Trust!Next]_(Trust!vars)
<1> SUFFICES ASSUME TrustInv, [Next]_vars PROVE [Trust!Next]_(Trust!vars)
  OBVIOUS
<1> USE DEF juju, pod, cluster, hook
<1>1. TypeOK BY DEF TrustInv
<1>2. ASSUME NEW u \in Units, pc[u] \notin {"idle", "error"} PROVE certs[u] # NoCert
  BY <1>2 DEF TrustInv, CertificatesInv
<1>3. CASE UNCHANGED <<issued, certs, stored, files, caBundle>>
  BY <1>3 DEF Trust!vars
<1>4. ASSUME NEW u \in Units
      PROVE  /\ certs[u] \in Nat
             /\ caBundle \in [Resources -> Nat] /\ files[u] \in [CertFiles -> Nat]
             /\ files = [files EXCEPT ![u] = files[u]]
  BY <1>1 DEF TypeOK
<1>5. ASSUME NEW u \in Units, HookStep(u) PROVE [Trust!Next]_(Trust!vars)
  <2>1. ASSUME NEW e \in Event, Dispatch(u, e) PROVE Trust!Next
    BY <2>1, DispatchHolds DEF Trust!Next
  <2>2. CASE ApplyResources(u)
    <3>1. caBundle' \in Trust!Overwritten(caBundle, certs[u], Resources)
      BY <1>4, <2>2, PrefixOverwrites DEF ApplyResources
    <3>2. files[u] \in Trust!Overwritten(files[u], certs[u], CertFiles)
      BY <1>4, PrefixOverwrites
    <3>3. certs[u] # NoCert BY <1>2, <2>2 DEF ApplyResources
    <3>4. UNCHANGED <<issued, stored, files, certs>> BY <2>2 DEF ApplyResources
    <3>5. Trust!Write(u) BY <1>1, <1>4, <3>1, <3>2, <3>3, <3>4, WritesTrust
    <3>6. QED BY <3>5 DEF Trust!Next
  <2>3. CASE UpdatePebble(u)
    <3>1. files' = [files EXCEPT ![u] = Pushed(files[u], certs[u], Len(Files))]
      BY <2>3 DEF UpdatePebble
    <3>2. Pushed(files[u], certs[u], Len(Files)) \in Trust!Overwritten(files[u], certs[u], CertFiles)
      BY <1>4, PrefixOverwrites
    <3>3. caBundle' \in Trust!Overwritten(caBundle, certs[u], Resources)
      BY <1>4, <2>3, PrefixOverwrites DEF UpdatePebble
    <3>4. certs[u] # NoCert /\ UNCHANGED <<issued, stored, certs>>
      BY <1>2, <2>3 DEF UpdatePebble
    <3>5. Trust!Write(u) BY <1>1, <3>1, <3>2, <3>3, <3>4, WritesTrust
    <3>6. QED BY <3>5 DEF Trust!Next
  <2>4. CASE Finish(u)
    <3>1. Trust!Keep(u)
      BY <1>2, <2>4 DEF Finish, Unwind, Trust!Keep, Trust!None, NoCert
    <3>2. QED BY <3>1 DEF Trust!Next
  <2>5. CASE RemoveComponents(u)
    <3>1. Trust!Lose(u)
      BY <2>5 DEF RemoveComponents, Unwind, Trust!Lose, Trust!None, Trust!Nothing, NoCert
    <3>2. QED BY <3>1 DEF Trust!Next
  <2>6. CASE PassOver(u) \/ ReconcileMesh(u) \/ PebbleNotReady(u)
    BY <1>3, <2>6 DEF PassOver, ReconcileMesh, PebbleNotReady
  <2>7. QED BY <1>5, <2>1, <2>2, <2>3, <2>4, <2>5, <2>6 DEF HookStep
<1>6. CASE Environment
  <2>1. ASSUME NEW u \in Units, HookFails(u) PROVE Trust!Next
    <3>1. certs[u] # NoCert BY <1>2, <2>1 DEF HookFails
    <3>2. UNCHANGED <<issued, stored>> /\ certs' = [certs EXCEPT ![u] = NoCert]
      BY <2>1 DEF HookFails, Unwind
    <3>3. caBundle' \in Trust!Overwritten(caBundle, certs[u], Resources)
      <4>1. CASE caBundle' = caBundle BY <1>4, <4>1, PrefixOverwrites
      <4>2. ASSUME NEW n, caBundle' = Applied(caBundle, certs[u], n)
            PROVE  caBundle' \in Trust!Overwritten(caBundle, certs[u], Resources)
        BY <1>4, <4>2, PrefixOverwrites
      <4>3. QED BY <2>1, <4>1, <4>2 DEF HookFails
    <3>4. PICK n \in Trust!Overwritten(files[u], certs[u], CertFiles) :
             files' = [files EXCEPT ![u] = n]
      BY <1>4, <2>1, PrefixOverwrites DEF HookFails
    <3>5. Trust!Write(u) BY <1>1, <3>1, <3>2, <3>3, <3>4, WritesTrust
    <3>6. QED BY <3>5 DEF Trust!Next
  <2>2. ASSUME NEW u \in Units, ContainerRestarts(u) PROVE Trust!Next
    BY <2>2 DEF ContainerRestarts, LoseContainer, Trust!Next, Trust!Lose, Trust!None,
       Trust!Nothing, NoCert
  <2>3. ASSUME NEW u \in Units, PodChurn(u) PROVE Trust!Next
    BY <2>3 DEF PodChurn, LoseContainer, Unwind, Trust!Next, Trust!Lose, Trust!None,
       Trust!Nothing, NoCert
  <2>4. QED
    BY <1>3, <1>6, <2>1, <2>2, <2>3 DEF Environment, LeadershipMoves, LeaseExpires,
       BecomeLeader, UpdateStatus, PebbleReady, ScaleDown, Relate, BreakRelation,
       RelationGone, PublishMetadata
<1>7. CASE UNCHANGED vars BY <1>3, <1>7 DEF vars
<1>8. QED BY <1>5, <1>6, <1>7 DEF Next

LEMMA InitTrustInv == Init => TrustInv
  BY InitTypeOK DEF Init, TrustInv, CertificatesInv, NoCert

\* Seen from its certificates alone, the charm does what WebhookTrust allows
\* and nothing else: a step of its hooks is a step there or none.
THEOREM ImplementsTrust == Spec => TrustImplemented
<1>1. Init => Trust!Init
  BY DEF Init, Trust!Init, Trust!None, Trust!Nothing, NoCert
<1>2. QED
  BY <1>1, InitTrustInv, CertificatesStep, TrustStep, PTL DEF Spec, TrustImplemented, Trust!Spec

-----------------------------------------------------------------------------
(* What WebhookTrust promises, whoever implements it, keeps certificates with *)
(* their units.                                                               *)

\* What is written into some entries of b is in them, and nothing else is new.
LEMMA OverwrittenEntries ==
    ASSUME NEW D, NEW b \in [D -> Nat], NEW c \in Nat, NEW n \in Trust!Overwritten(b, c, D)
    PROVE  n \in [D -> Nat] /\ \A x \in D : n[x] \in {b[x], c}
  BY DEF Trust!Overwritten

LEMMA TrustTyped == Trust!Typed /\ [Trust!Next]_(Trust!vars) => Trust!Typed'
<1> SUFFICES ASSUME Trust!Typed, [Trust!Next]_(Trust!vars) PROVE Trust!Typed'
  OBVIOUS
<1>1. ASSUME NEW u \in Units, Trust!Hold(u) PROVE Trust!Typed'
  BY <1>1 DEF Trust!Hold, Trust!Typed
<1>2. ASSUME NEW u \in Units, Trust!Write(u) PROVE Trust!Typed'
  <2>1. caBundle' \in [Resources -> Nat]
    BY <1>2, OverwrittenEntries DEF Trust!Write, Trust!Typed
  <2>2. \A n \in Trust!Overwritten(files[u], certs[u], CertFiles) : n \in [CertFiles -> Nat]
    BY OverwrittenEntries DEF Trust!Typed
  <2>3. files' \in [Units -> [CertFiles -> Nat]]
    BY <1>2, <2>2 DEF Trust!Write, Trust!Typed
  <2>4. QED BY <1>2, <2>1, <2>3 DEF Trust!Write, Trust!Typed, Trust!None
<1>3. ASSUME NEW u \in Units, Trust!Keep(u) PROVE Trust!Typed'
  BY <1>3 DEF Trust!Keep, Trust!Typed, Trust!None
<1>4. ASSUME NEW u \in Units, Trust!Lose(u) PROVE Trust!Typed'
  BY <1>4 DEF Trust!Lose, Trust!Typed, Trust!None, Trust!Nothing
<1>5. CASE UNCHANGED Trust!vars BY <1>5 DEF Trust!vars, Trust!Typed
<1>6. QED BY <1>1, <1>2, <1>3, <1>4, <1>5 DEF Trust!Next

\* What unit v has after a step, it had before, or the step is its Hold, which
\* makes a certificate that is new.
LEMMA NewOnlyInHold ==
    ASSUME Trust!Typed, [Trust!Next]_(Trust!vars), NEW v \in Units, NEW c \in Trust!Certificates(v)'
    PROVE  \/ c \in Trust!Certificates(v) \cup {Trust!None}
           \/ Trust!Hold(v) /\ stored[v] = Trust!None /\ c = issued + 1
<1> USE DEF Trust!Certificates, Trust!Typed, Trust!None
<1>1. ASSUME NEW u \in Units, Trust!Hold(u)
      PROVE  \/ c \in Trust!Certificates(v) \cup {Trust!None}
             \/ Trust!Hold(v) /\ stored[v] = Trust!None /\ c = issued + 1
  BY <1>1 DEF Trust!Hold
<1>2. ASSUME NEW u \in Units, Trust!Write(u) PROVE c \in Trust!Certificates(v) \cup {Trust!None}
  <2>1. \A n \in Trust!Overwritten(files[u], certs[u], CertFiles), f \in CertFiles :
          n[f] \in {files[u][f], certs[u]}
    BY OverwrittenEntries
  <2>2. \A f \in CertFiles : files'[v][f] \in {files[v][f], certs[v]}
    BY <1>2, <2>1 DEF Trust!Write
  <2>3. certs'[v] \in {certs[v], Trust!None} /\ stored'[v] = stored[v]
    BY <1>2 DEF Trust!Write
  <2>4. QED BY <2>2, <2>3
<1>3. ASSUME NEW u \in Units, Trust!Keep(u) PROVE c \in Trust!Certificates(v) \cup {Trust!None}
  BY <1>3 DEF Trust!Keep
<1>4. ASSUME NEW u \in Units, Trust!Lose(u) PROVE c \in Trust!Certificates(v) \cup {Trust!None}
  BY <1>4 DEF Trust!Lose, Trust!Nothing
<1>5. CASE UNCHANGED Trust!vars BY <1>5 DEF Trust!vars
<1>6. QED BY <1>1, <1>2, <1>3, <1>4, <1>5 DEF Trust!Next

LEMMA TrustInductive == Trust!Inv /\ [Trust!Next]_(Trust!vars) => Trust!Inv'
<1> SUFFICES ASSUME Trust!Inv, [Trust!Next]_(Trust!vars) PROVE Trust!Inv'
  OBVIOUS
<1>1. Trust!Typed /\ Trust!Typed' BY TrustTyped DEF Trust!Inv
<1>2. /\ issued' >= issued
      /\ \A u \in Units : Trust!Hold(u) /\ stored[u] = Trust!None => issued' = issued + 1
  <2>1. ASSUME NEW u \in Units, Trust!Write(u) \/ Trust!Keep(u) \/ Trust!Lose(u)
        PROVE  issued' = issued
    BY <2>1 DEF Trust!Write, Trust!Keep, Trust!Lose
  <2>2. ASSUME NEW u \in Units, Trust!Hold(u)
        PROVE issued' \in {issued, issued + 1} /\ (stored[u] = Trust!None => issued' = issued + 1)
    BY <2>2 DEF Trust!Hold
  <2>3. QED BY <1>1, <2>1, <2>2 DEF Trust!Next, Trust!vars, Trust!Typed
<1>3. \A u \in Units : \A c \in Trust!Certificates(u)' : c <= issued'
  <2> SUFFICES ASSUME NEW u \in Units, NEW c \in Trust!Certificates(u)' PROVE c <= issued'
    OBVIOUS
  <2>1. \A d \in Trust!Certificates(u) : d <= issued /\ d \in Nat
    BY <1>1 DEF Trust!Inv, Trust!Certificates, Trust!Typed
  <2>2. CASE c \in Trust!Certificates(u) \cup {Trust!None}
    BY <1>1, <1>2, <2>1, <2>2 DEF Trust!None, Trust!Typed
  <2>3. CASE Trust!Hold(u) /\ stored[u] = Trust!None /\ c = issued + 1
    BY <1>1, <1>2, <2>3 DEF Trust!Typed
  <2>4. QED BY <1>1, <2>2, <2>3, NewOnlyInHold
<1>4. \A u \in Units : certs'[u] # Trust!None /\ stored'[u] # Trust!None => certs'[u] = stored'[u]
  <2> SUFFICES ASSUME NEW v \in Units, certs'[v] # Trust!None, stored'[v] # Trust!None
               PROVE  certs'[v] = stored'[v]
    OBVIOUS
  <2>1. certs[v] # Trust!None /\ stored[v] # Trust!None => certs[v] = stored[v] BY DEF Trust!Inv
  <2>2. ASSUME NEW u \in Units, Trust!Hold(u) PROVE certs'[v] = stored'[v]
    BY <1>1, <2>1, <2>2 DEF Trust!Hold, Trust!Typed
  <2>3. ASSUME NEW u \in Units, Trust!Write(u) PROVE certs'[v] = stored'[v]
    BY <1>1, <2>1, <2>3 DEF Trust!Write, Trust!Typed
  <2>4. ASSUME NEW u \in Units, Trust!Keep(u) PROVE certs'[v] = stored'[v]
    BY <1>1, <2>1, <2>4 DEF Trust!Keep, Trust!Typed
  <2>5. ASSUME NEW u \in Units, Trust!Lose(u) PROVE certs'[v] = stored'[v]
    BY <1>1, <2>1, <2>5 DEF Trust!Lose, Trust!Typed
  <2>6. QED BY <2>1, <2>2, <2>3, <2>4, <2>5 DEF Trust!Next, Trust!vars
<1>5. Trust!CertificatesOwn'
  <2> SUFFICES ASSUME NEW u \in Units, NEW v \in Units, u # v,
                      NEW c \in Trust!Certificates(u)', c \in Trust!Certificates(v)'
               PROVE  c = Trust!None
    BY DEF Trust!CertificatesOwn, Trust!Certificates
  <2>1. c \in Trust!Certificates(u) /\ c \in Trust!Certificates(v) => c = Trust!None
    BY DEF Trust!Inv, Trust!CertificatesOwn
  <2>2. \A w \in Units : issued + 1 \notin Trust!Certificates(w)
    BY <1>1 DEF Trust!Inv, Trust!Typed
  <2>3. issued + 1 # Trust!None BY <1>1 DEF Trust!Typed, Trust!None
  <2>4. ~(Trust!Hold(u) /\ stored[u] = Trust!None /\ Trust!Hold(v) /\ stored[v] = Trust!None)
    <3>1. Trust!Hold(u) /\ stored[u] = Trust!None => certs'[u] = issued + 1
      BY <1>1 DEF Trust!Hold, Trust!Typed
    <3>2. Trust!Hold(v) => certs'[u] = certs[u]
      BY <1>1 DEF Trust!Hold, Trust!Typed
    <3>3. Trust!Hold(u) => certs[u] = Trust!None
      BY DEF Trust!Hold
    <3>4. QED BY <2>3, <3>1, <3>2, <3>3
  <2>5. \/ c \in Trust!Certificates(u) \cup {Trust!None}
        \/ Trust!Hold(u) /\ stored[u] = Trust!None /\ c = issued + 1
    BY <1>1, NewOnlyInHold
  <2>6. \/ c \in Trust!Certificates(v) \cup {Trust!None}
        \/ Trust!Hold(v) /\ stored[v] = Trust!None /\ c = issued + 1
    BY <1>1, NewOnlyInHold
  <2>7. QED BY <2>1, <2>2, <2>3, <2>4, <2>5, <2>6
<1>6. QED BY <1>1, <1>3, <1>4, <1>5 DEF Trust!Inv

LEMMA TrustStarts == Trust!Init => Trust!Inv
  BY DEF Trust!Init, Trust!Inv, Trust!Typed, Trust!Certificates, Trust!CertificatesOwn, Trust!None,
     Trust!Nothing

LEMMA TrustHolds == Trust!Spec => []Trust!Inv
  BY TrustStarts, TrustInductive, PTL DEF Trust!Spec

\* No two units ever have a certificate in common: each private key stays in its
\* pod, whatever is interrupted, retried or lost.
THEOREM CertificatesStayOwn == Trust!Spec => []Trust!CertificatesOwn
<1>1. Trust!Inv => Trust!CertificatesOwn BY DEF Trust!Inv
<1>2. QED BY <1>1, TrustHolds, PTL

\* A certificate that was kept is lost, but never replaced (charm.py: generate
\* certificates if they don't already exist).
THEOREM KeptIsKept == Trust!Spec => Trust!KeptStays
<1>1. Trust!Inv /\ [Trust!Next]_(Trust!vars) =>
        [\A u \in Units : stored'[u] # stored[u] => Trust!None \in {stored[u], stored'[u]}]_(Trust!vars)
  <2> SUFFICES ASSUME Trust!Inv, Trust!Next, NEW v \in Units, stored'[v] # stored[v]
               PROVE  Trust!None \in {stored[v], stored'[v]}
    OBVIOUS
  <2>1. certs[v] # Trust!None /\ stored[v] # Trust!None => certs[v] = stored[v] BY DEF Trust!Inv
  <2>2. PICK u \in Units : Trust!Keep(u) \/ Trust!Lose(u)
    BY DEF Trust!Next, Trust!Hold, Trust!Write
  <2>3. QED BY <2>1, <2>2 DEF Trust!Keep, Trust!Lose, Trust!Inv, Trust!Typed
<1>2. QED BY <1>1, TrustHolds, PTL DEF Trust!Spec, Trust!KeptStays

\* No two units of the charm ever have a certificate in common, in StoredState,
\* in a hook or in the workload's files.
THEOREM OwnCertificates == Spec => []CertificatesOwn
  BY ImplementsTrust, CertificatesStayOwn, PTL DEF TrustImplemented, CertificatesOwn

\* Nor is a certificate that StoredState keeps ever replaced by another one, by
\* whatever hooks, failing or repeated (charm.py: the certificates of _stored are
\* generated only where there are none).
THEOREM OwnCertificateKept == Spec => Trust!KeptStays
  BY ImplementsTrust, KeptIsKept, PTL DEF TrustImplemented

-----------------------------------------------------------------------------
(* The settled leader.  While no unit is removed, what a leader's status says *)
(* of trust and mode is true, unless an event is left that will correct it.   *)

\* Until a unit is told to leave, no unit is gone and none removes anything.
NoneLeaves ==
    /\ members = Units
    /\ \A u \in Units : Removal \notin todo[u] /\ ev[u] # Removal /\ pc[u] # "remove"

\* Where a hook of unit u stands, and what st has of it by then.
HookShape(u) ==
    /\ pc[u] = "idle" <=> ev[u] = NoEvent
    /\ pc[u] \in {"kubernetes", "service-mesh", "pebble"} => Reconciles(ev[u])
    /\ pc[u] \in {"idle", "error", "kubernetes"} => st[u]["kubernetes"] = "pending"
    /\ pc[u] # "finish" => st[u]["pebble"] = "pending"
    /\ st[u]["pebble"] = "active" => st[u]["service-mesh"] = "active"
    /\ pc[u] \notin {"idle", "error"} => stored[u] \in {NoCert, certs[u]}

\* Where unit u's view of relation r differs from what it is, u has been told.
RelationTold(u, r) ==
    /\ rel[r] = "alive" /\ r \notin seen[u] <=> Created(r) \in todo[u]
    /\ rel[r] = "dying" /\ r \in seen[u] <=> Broken(r) \in todo[u]
    /\ rel[r] = "absent" => r \notin seen[u]
    /\ Changed(r) \in todo[u] => rel[r] = "alive"
    /\ Created(r) \in todo[u] => Changed(r) \in todo[u]
    /\ ev[u] = Created(r) => r \in seen[u] /\ (Changed(r) \in todo[u] \/ Broken(r) \in todo[u])
    /\ ev[u] = Changed(r) => r \in seen[u]
    /\ ev[u] = Broken(r) => r \notin seen[u] /\ rel[r] = "dying"

\* Unit u acts on nothing older than the last lifecycle event.
UpToDate(u) == leader = u /\ Lifecycle \notin todo[u]

\* Nor than the last change of the gateway relation that it sees.
ModeKnown(u) ==
    /\ UpToDate(u) /\ Broken(GatewayMetadata) \notin todo[u]
    /\ GatewayMetadata \in seen[u] => Changed(GatewayMetadata) \notin todo[u]

\* Unit u's status is of the last reconciliation, and nothing else is under way.
StatusHolds(u) == (pc[u] = "idle" \/ ~Reconciles(ev[u])) /\ status[u] = "active"

\* What unit u has gone through with, or reports to be active in, is trusted.
TrustSettles(u) ==
    UpToDate(u) =>
        /\ st[u]["kubernetes"] = "active" => \A w \in Resources : caBundle[w] = certs[u]
        /\ st[u]["pebble"] = "active" /\ connected[u] => \A f \in CertFiles : files[u][f] = certs[u]
        /\ StatusHolds(u) =>
            /\ stored[u] # NoCert
            /\ \A w \in Resources : caBundle[w] = stored[u]
            /\ connected[u] => \A f \in CertFiles : files[u][f] = stored[u]

\* What unit u, seeing the relations as it does, reads and tells the workload.
SeenMetadata(u) == IF GatewayMetadata \in seen[u] THEN metadata ELSE NoData
SeenLayer(u) ==
    [ambient |-> GatewayMetadata \in seen[u],
     gateway |-> IF GatewayMetadata \in seen[u] THEN metadata ELSE DefaultGateway]

\* A mode unit u has gone through with, or reports to be active in, is the one
\* that it sees, unless an event is left that will have it look again.
ModeSettles(u) ==
    ModeKnown(u) =>
        /\ st[u]["service-mesh"] = "active" =>
             allowAll = (GatewayMetadata \in seen[u]) /\ meta[u] = SeenMetadata(u)
        /\ st[u]["pebble"] = "active" /\ connected[u] => plan[u] = SeenLayer(u)
        /\ StatusHolds(u) =>
             allowAll = (GatewayMetadata \in seen[u]) /\ (connected[u] => plan[u] = SeenLayer(u))

UnitCalm(u) ==
    /\ HookShape(u) /\ TrustSettles(u) /\ ModeSettles(u)
    /\ \A r \in Relations : RelationTold(u, r)

\* What holds of every unit as long as none was removed.
Calm == NoneLeaves /\ \A u \in Units : UnitCalm(u)

SettledInv == spent["remove"] = 0 => Calm

\* Events of different kinds, or of different relations, differ.
LEMMA EventsDiffer ==
    ASSUME NEW r \in Relations, NEW q \in Relations
    PROVE  /\ Created(r) # Changed(q) /\ Created(r) # Broken(q) /\ Changed(r) # Broken(q)
           /\ Created(r) \notin {Lifecycle, Removal} /\ Changed(r) \notin {Lifecycle, Removal}
           /\ Broken(r) \notin {Lifecycle, Removal} /\ Lifecycle # Removal
           /\ r # q => Created(r) # Created(q) /\ Changed(r) # Changed(q) /\ Broken(r) # Broken(q)
           /\ Reconciles(Lifecycle) /\ Reconciles(Changed(r)) /\ Reconciles(Broken(r))
           /\ ~Reconciles(Created(r)) /\ ~Reconciles(Removal)
  BY DEF Created, Changed, Broken, Lifecycle, Removal, Reconciles

\* Every event is one of these.
LEMMA EventKinds ==
    ASSUME NEW e \in Event
    PROVE  \/ e = Lifecycle \/ e = Removal
           \/ \E r \in Relations : e \in {Created(r), Changed(r), Broken(r)}
<1>1. CASE e \in RelationEvent
  <2>1. PICK k \in {"created", "changed", "broken"}, r \in Relations : e = [kind |-> k, rel |-> r]
    BY <1>1 DEF RelationEvent
  <2>2. QED BY <2>1 DEF Created, Changed, Broken
<1>2. QED BY <1>1 DEF Event

\* Every webhook configuration and every file has its place in the order.
LEMMA WholePrefix ==
    ASSUME NEW c
    PROVE  /\ \A b : \A w \in Resources : Applied(b, c, Len(Webhooks))[w] = c
           /\ \A b : \A f \in CertFiles : Pushed(b, c, Len(Files))[f] = c
<1>1. \A w \in Resources : Position(Webhooks, w) \in 1 .. 2
  <2> TAKE w \in Resources
  <2>1. \E i \in DOMAIN Webhooks : Webhooks[i] = w
    BY DEF Webhooks, Resources
  <2>2. Position(Webhooks, w) \in DOMAIN Webhooks
    BY <2>1 DEF Position
  <2>3. QED BY <2>2 DEF Webhooks
<1>2. \A f \in CertFiles : Position(Files, f) \in 1 .. 3
  <2> TAKE f \in CertFiles
  <2>1. \E i \in DOMAIN Files : Files[i] = f
    BY DEF Files, CertFiles
  <2>2. Position(Files, f) \in DOMAIN Files
    BY <2>1 DEF Position
  <2>3. QED BY <2>2 DEF Files
<1>3. Len(Webhooks) = 2 /\ Len(Files) = 3
  BY DEF Webhooks, Files
<1>4. QED BY <1>1, <1>2, <1>3 DEF Applied, Pushed

-----------------------------------------------------------------------------
\* Nothing of unit u changes, but for the shared state while u is no leader.
UnitKept(u) ==
    /\ pc'[u] = pc[u] /\ ev'[u] = ev[u] /\ certs'[u] = certs[u] /\ st'[u] = st[u]
    /\ meta'[u] = meta[u] /\ stored'[u] = stored[u] /\ status'[u] = status[u]
    /\ seen'[u] = seen[u] /\ todo'[u] = todo[u] /\ connected'[u] = connected[u]
    /\ files'[u] = files[u] /\ plan'[u] = plan[u]
    /\ leader = u => caBundle' = caBundle /\ allowAll' = allowAll

LEMMA KeptCalm ==
    ASSUME NEW u \in Units, UnitCalm(u), UnitKept(u), UNCHANGED <<rel, metadata, leader>>
    PROVE  UnitCalm(u)'
<1>1. HookShape(u)'
  BY DEF UnitCalm, UnitKept, HookShape
<1>2. UpToDate(u)' <=> UpToDate(u)
  BY DEF UnitKept, UpToDate
<1>3. ModeKnown(u)' <=> ModeKnown(u)
  BY <1>2 DEF UnitKept, ModeKnown
<1>4. StatusHolds(u)' <=> StatusHolds(u)
  BY DEF UnitKept, StatusHolds
<1>5. TrustSettles(u)'
  BY <1>2, <1>4 DEF UnitCalm, UnitKept, TrustSettles, UpToDate
<1>6. SeenMetadata(u)' = SeenMetadata(u) /\ SeenLayer(u)' = SeenLayer(u)
  BY DEF UnitKept, SeenMetadata, SeenLayer
<1>7. ModeSettles(u)'
  BY <1>3, <1>4, <1>6 DEF UnitCalm, UnitKept, ModeSettles, ModeKnown, UpToDate
<1>8. \A r \in Relations : RelationTold(u, r)'
  BY DEF UnitCalm, UnitKept, RelationTold
<1>9. QED BY <1>1, <1>5, <1>7, <1>8 DEF UnitCalm

-----------------------------------------------------------------------------
\* What Juju hands to a unit between two hooks.
LEMMA DispatchedEvent ==
    ASSUME TypeOK, NoneLeaves, NEW u \in Units, UnitCalm(u), NEW e \in Event, Dispatch(u, e)
    PROVE  /\ (pc[u] = "idle" /\ e \in todo[u]) \/ (pc[u] = "error" /\ e = ev[u])
           /\ \E r \in Relations : e \in {Created(r), Changed(r), Broken(r)} \/ e = Lifecycle
           /\ \A r \in Relations :
                /\ pc[u] = "idle" /\ e \in {Changed(r), Broken(r)} => Created(r) \notin todo[u]
                /\ e = Created(r) => seen'[u] = seen[u] \cup {r}
                /\ e = Broken(r) => seen'[u] = seen[u] \ {r}
                /\ e = Changed(r) => seen'[u] = seen[u]
           /\ e = Lifecycle => seen'[u] = seen[u]
           /\ todo'[u] = todo[u] \ {e} /\ ev'[u] = e /\ st'[u] = st[u] /\ meta'[u] = meta[u]
           /\ certs'[u] = IF stored[u] = NoCert THEN issued + 1 ELSE stored[u]
           /\ pc'[u] = IF Reconciles(e) THEN "kubernetes" ELSE "finish"
           /\ UNCHANGED <<rel, metadata, leader, stored, status, caBundle, allowAll, connected,
                          files, plan>>
<1> USE DEF juju, pod, cluster
<1>1. (pc[u] = "idle" /\ e \in todo[u]) \/ (pc[u] = "error" /\ e = ev[u])
  BY DEF Dispatch, Deliverable
<1>2. e # Removal
  BY <1>1 DEF NoneLeaves
<1>3. \E r \in Relations : e \in {Created(r), Changed(r), Broken(r)} \/ e = Lifecycle
  BY <1>2, EventKinds DEF Relations
<1>4. seen'[u] = CASE e.kind = "created" -> seen[u] \cup {e.rel}
                   [] e.kind = "broken" -> seen[u] \ {e.rel}
                   [] OTHER -> seen[u]
  BY DEF Dispatch, TypeOK
<1>5. ASSUME NEW r \in Relations
      PROVE  /\ pc[u] = "idle" /\ e \in {Changed(r), Broken(r)} => Created(r) \notin todo[u]
             /\ e = Created(r) => seen'[u] = seen[u] \cup {r}
             /\ e = Broken(r) => seen'[u] = seen[u] \ {r}
             /\ e = Changed(r) => seen'[u] = seen[u]
  <2>1. e = Created(r) => e.kind = "created" /\ e.rel = r BY DEF Created
  <2>2. e = Changed(r) => e.kind = "changed" /\ e.rel = r BY DEF Changed
  <2>3. e = Broken(r) => e.kind = "broken" /\ e.rel = r BY DEF Broken
  <2>4. pc[u] = "idle" /\ e \in {Changed(r), Broken(r)} => Created(r) \notin todo[u]
    BY <2>2, <2>3 DEF Dispatch, Deliverable
  <2>5. QED BY <1>4, <2>1, <2>2, <2>3, <2>4
<1>6. e = Lifecycle => seen'[u] = seen[u]
  BY <1>4 DEF Lifecycle
<1>7. pc'[u] = IF Reconciles(e) THEN "kubernetes" ELSE "finish"
  <2>1. pc'[u] = CASE Reconciles(e) -> "kubernetes" [] e.kind = "remove" -> "remove"
                   [] OTHER -> "finish"
    BY DEF Dispatch, TypeOK
  <2>2. e.kind # "remove"
    BY <1>3 DEF Created, Changed, Broken, Lifecycle
  <2>3. QED BY <2>1, <2>2
<1>8. /\ todo'[u] = todo[u] \ {e} /\ ev'[u] = e /\ st'[u] = st[u] /\ meta'[u] = meta[u]
      /\ certs'[u] = IF stored[u] = NoCert THEN issued + 1 ELSE stored[u]
      /\ UNCHANGED <<rel, metadata, leader, stored, status, caBundle, allowAll, connected,
                     files, plan>>
  BY DEF Dispatch, TypeOK, GenCertsIfMissing, GenCerts
<1>9. QED BY <1>1, <1>3, <1>5, <1>6, <1>7, <1>8

\* A relation of which the unit is handed no event.
LEMMA RelationKept ==
    ASSUME NEW u \in Units, NEW r \in Relations, RelationTold(u, r),
           rel'[r] = rel[r], r \in seen'[u] <=> r \in seen[u],
           \A x \in {Created(r), Changed(r), Broken(r)} : x \in todo'[u] <=> x \in todo[u],
           ev'[u] = ev[u] \/ ev'[u] \notin {Created(r), Changed(r), Broken(r)}
    PROVE  RelationTold(u, r)'
  BY DEF RelationTold

LEMMA DispatchRelations ==
    ASSUME TypeOK, NoneLeaves, NEW u \in Units, UnitCalm(u), NEW e \in Event, Dispatch(u, e),
           NEW r \in Relations
    PROVE  RelationTold(u, r)'
<1>1. /\ (pc[u] = "idle" /\ e \in todo[u]) \/ (pc[u] = "error" /\ e = ev[u])
      /\ todo'[u] = todo[u] \ {e} /\ ev'[u] = e /\ rel' = rel
  BY DispatchedEvent
<1>2. RelationTold(u, r)
  BY DEF UnitCalm
<1>3. CASE e = Created(r)
  <2>1. seen'[u] = seen[u] \cup {r}
    BY <1>3, DispatchedEvent
  <2>2. QED BY <1>1, <1>2, <1>3, <2>1, EventsDiffer DEF RelationTold
<1>4. CASE e = Changed(r)
  <2>1. seen'[u] = seen[u] /\ (pc[u] = "idle" => Created(r) \notin todo[u])
    BY <1>4, DispatchedEvent
  <2>2. QED BY <1>1, <1>2, <1>4, <2>1, EventsDiffer DEF RelationTold
<1>5. CASE e = Broken(r)
  <2>1. seen'[u] = seen[u] \ {r} /\ (pc[u] = "idle" => Created(r) \notin todo[u])
    BY <1>5, DispatchedEvent
  <2>2. QED BY <1>1, <1>2, <1>5, <2>1, EventsDiffer DEF RelationTold
<1>6. CASE e \notin {Created(r), Changed(r), Broken(r)}
  <2>1. r \in seen'[u] <=> r \in seen[u]
    <3>1. CASE e = Lifecycle BY <3>1, DispatchedEvent
    <3>2. ASSUME NEW q \in Relations \ {r}, e \in {Created(q), Changed(q), Broken(q)}
          PROVE  r \in seen'[u] <=> r \in seen[u]
      BY <3>2, DispatchedEvent
    <3>3. QED BY <1>6, <3>1, <3>2, DispatchedEvent
  <2>2. QED BY <1>1, <1>2, <1>6, <2>1, RelationKept
<1>7. QED BY <1>3, <1>4, <1>5, <1>6

\* A unit between two hooks has no working state.
LEMMA NothingExecuted ==
    ASSUME MetadataRead, NEW u \in Units, HookShape(u), pc[u] \in {"idle", "error"}
    PROVE  \A c \in {"kubernetes", "service-mesh", "pebble"} : st[u][c] = "pending"
  BY DEF MetadataRead, HookShape

LEMMA DispatchCalm ==
    ASSUME TypeOK, MetadataRead, NoneLeaves, NEW u \in Units, UnitCalm(u), NEW e \in Event,
           Dispatch(u, e)
    PROVE  UnitCalm(u)'
<1>1. /\ (pc[u] = "idle" /\ e \in todo[u]) \/ (pc[u] = "error" /\ e = ev[u])
      /\ todo'[u] = todo[u] \ {e} /\ ev'[u] = e /\ st'[u] = st[u]
      /\ pc'[u] = IF Reconciles(e) THEN "kubernetes" ELSE "finish"
      /\ UNCHANGED <<metadata, leader, stored, status, caBundle, allowAll, connected, files, plan>>
  BY DispatchedEvent
<1>2. \A c \in {"kubernetes", "service-mesh", "pebble"} : st'[u][c] = "pending"
  BY <1>1, NothingExecuted DEF UnitCalm
<1>3. HookShape(u)'
  <2>1. e # NoEvent BY ConstantsAssumption
  <2>2. stored'[u] \in {NoCert, certs'[u]} BY DispatchedEvent
  <2>3. QED BY <1>1, <1>2, <2>1, <2>2 DEF HookShape
<1>4. CASE Reconciles(e)
  <2>1. ~StatusHolds(u)'
    BY <1>1, <1>4 DEF StatusHolds
  <2>2. TrustSettles(u)' /\ ModeSettles(u)'
    BY <1>2, <2>1 DEF TrustSettles, ModeSettles
  <2>3. QED BY <1>3, <2>2, DispatchRelations DEF UnitCalm
<1>5. CASE ~Reconciles(e)
  <2>1. PICK r \in Relations : e = Created(r)
    BY <1>5, DispatchedEvent, EventsDiffer
  <2>2. seen'[u] = seen[u] \cup {r}
    BY <2>1, DispatchedEvent
  <2>3. UpToDate(u)' => UpToDate(u)
    BY <1>1, <2>1, EventsDiffer DEF UpToDate
  <2>4. StatusHolds(u)' => StatusHolds(u)
    BY <1>1, <1>5 DEF StatusHolds
  <2>5. TrustSettles(u)'
    BY <1>1, <1>2, <2>3, <2>4 DEF TrustSettles, UnitCalm
  <2>6. ModeSettles(u)'
    <3>1. CASE r # GatewayMetadata
      <4>1. GatewayMetadata \in seen'[u] <=> GatewayMetadata \in seen[u]
        BY <2>2, <3>1
      <4>2. ModeKnown(u)' => ModeKnown(u)
        BY <1>1, <2>1, <2>3, <4>1, EventsDiffer DEF ModeKnown, Relations
      <4>3. SeenLayer(u)' = SeenLayer(u)
        BY <1>1, <4>1 DEF SeenLayer
      <4>4. QED BY <1>1, <1>2, <2>4, <4>1, <4>2, <4>3 DEF ModeSettles, UnitCalm
    <3>2. CASE r = GatewayMetadata
      <4>1. Changed(r) \in todo[u] \/ Broken(r) \in todo[u]
        BY <1>1, <2>1 DEF UnitCalm, RelationTold
      <4>2. Changed(r) \in todo'[u] \/ Broken(r) \in todo'[u]
        BY <1>1, <2>1, <4>1, EventsDiffer
      <4>3. ~ModeKnown(u)'
        BY <2>2, <3>2, <4>2 DEF ModeKnown
      <4>4. QED BY <4>3 DEF ModeSettles
    <3>3. QED BY <3>1, <3>2
  <2>7. QED BY <1>3, <2>5, <2>6, DispatchRelations DEF UnitCalm
<1>6. QED BY <1>4, <1>5

-----------------------------------------------------------------------------
\* A step that hands unit u no event and takes none from it.
LEMMA RelationsKept ==
    ASSUME NEW u \in Units, UnitCalm(u), UNCHANGED rel, seen'[u] = seen[u],
           \A r \in Relations : \A x \in {Created(r), Changed(r), Broken(r)} :
              x \in todo'[u] <=> x \in todo[u],
           ev'[u] = ev[u] \/ ev'[u] = NoEvent
    PROVE  \A r \in Relations : RelationTold(u, r)'
<1>1. \A r \in Relations : NoEvent \notin {Created(r), Changed(r), Broken(r)}
  BY EventTypes, ConstantsAssumption
<1>2. QED BY <1>1, RelationKept DEF UnitCalm

\* A component has its turn, or is passed over: nothing is said of the unit's
\* status before the hook ends.
LEMMA TurnTaken ==
    ASSUME NEW u \in Units, UnitCalm(u), UNCHANGED rel, seen'[u] = seen[u],
           todo'[u] = todo[u], ev'[u] = ev[u], certs'[u] = certs[u], stored'[u] = stored[u],
           pc[u] \in {"kubernetes", "service-mesh", "pebble"}, pc'[u] = Following(pc[u]),
           \A c \in Components \ {pc[u]} : st'[u][c] = st[u][c],
           (pc[u] = "pebble" /\ st'[u]["pebble"] = "active") => st[u]["service-mesh"] = "active"
    PROVE  /\ HookShape(u)' /\ ~StatusHolds(u)'
           /\ \A r \in Relations : RelationTold(u, r)'
<1>1. pc'[u] \in {"service-mesh", "pebble", "finish"} /\ Reconciles(ev[u])
  BY DEF UnitCalm, HookShape, Following
<1>2. ~StatusHolds(u)'
  BY <1>1 DEF StatusHolds
<1>3. HookShape(u)'
  <2>1. CASE pc[u] = "kubernetes"
    BY <2>1 DEF UnitCalm, HookShape, Following, Components
  <2>2. CASE pc[u] = "service-mesh"
    BY <2>2 DEF UnitCalm, HookShape, Following, Components
  <2>3. CASE pc[u] = "pebble"
    BY <2>3 DEF UnitCalm, HookShape, Following, Components
  <2>4. QED BY <2>1, <2>2, <2>3
<1>4. QED BY <1>2, <1>3, RelationsKept

\* What the turn of a component leaves of the unit's working state.
LEMMA ExecutedFields ==
    ASSUME TypeOK, NEW u \in Units, NEW s, Executed(u, s),
           pc[u] \in {"kubernetes", "service-mesh", "pebble"}
    PROVE  /\ pc'[u] = Following(pc[u]) /\ st'[u][pc[u]] = s
           /\ \A c \in Components \ {pc[u]} : st'[u][c] = st[u][c]
           /\ \A v \in Units \ {u} : pc'[v] = pc[v] /\ st'[v] = st[v]
  BY DEF TypeOK, Executed, Components

LEMMA PassOverCalm ==
    ASSUME TypeOK, NEW u \in Units, UnitCalm(u), PassOver(u)
    PROVE  UnitCalm(u)'
<1> USE DEF juju, pod, cluster
<1>1. /\ pc[u] \in {"kubernetes", "service-mesh", "pebble"} /\ pc'[u] = Following(pc[u])
      /\ UNCHANGED <<rel, metadata, leader, seen, todo, stored, connected, files, plan, status,
                     caBundle, allowAll, ev, certs, st, meta>>
  BY DEF PassOver, TypeOK
<1>2. (pc[u] = "pebble" /\ st'[u]["pebble"] = "active") => st[u]["service-mesh"] = "active"
  BY <1>1 DEF UnitCalm, HookShape
<1>3. /\ HookShape(u)' /\ ~StatusHolds(u)'
      /\ \A r \in Relations : RelationTold(u, r)'
  BY <1>1, <1>2, TurnTaken
<1>4. TrustSettles(u)'
  BY <1>1, <1>3 DEF TrustSettles, UnitCalm, UpToDate
<1>5. ModeSettles(u)'
  BY <1>1, <1>3 DEF ModeSettles, UnitCalm, UpToDate, ModeKnown, SeenLayer, SeenMetadata
<1>6. QED BY <1>3, <1>4, <1>5 DEF UnitCalm

LEMMA ApplyResourcesCalm ==
    ASSUME TypeOK, MetadataRead, NEW u \in Units, UnitCalm(u), ApplyResources(u)
    PROVE  UnitCalm(u)'
<1> USE DEF juju, pod, cluster
<1>1. /\ pc[u] = "kubernetes" /\ Executed(u, "active")
      /\ caBundle' = Applied(caBundle, certs[u], Len(Webhooks))
      /\ UNCHANGED <<rel, seen, todo, stored, ev, certs>>
  BY DEF ApplyResources
<1>2. /\ pc'[u] = Following(pc[u])
      /\ \A c \in Components \ {"kubernetes"} : st'[u][c] = st[u][c]
  BY <1>1, ExecutedFields
<1>3. /\ HookShape(u)' /\ ~StatusHolds(u)'
      /\ \A r \in Relations : RelationTold(u, r)'
  BY <1>1, <1>2, TurnTaken
<1>4. st'[u]["service-mesh"] = "pending" /\ st'[u]["pebble"] = "pending"
  BY <1>1, <1>2 DEF MetadataRead, UnitCalm, HookShape, Components
<1>5. \A w \in Resources : caBundle'[w] = certs'[u]
  BY <1>1, WholePrefix
<1>6. TrustSettles(u)' /\ ModeSettles(u)'
  BY <1>3, <1>4, <1>5 DEF TrustSettles, ModeSettles
<1>7. QED BY <1>3, <1>6 DEF UnitCalm

LEMMA ReconcileMeshCalm ==
    ASSUME TypeOK, NEW u \in Units, UnitCalm(u), ReconcileMesh(u)
    PROVE  UnitCalm(u)'
<1> USE DEF juju, pod, cluster
<1>1. /\ pc[u] = "service-mesh" /\ Executed(u, MeshStatus(u, ReadMetadata(u)))
      /\ allowAll' = (GatewayMetadata \in seen[u])
      /\ meta'[u] = ReadMetadata(u)
      /\ UNCHANGED <<rel, metadata, leader, seen, todo, stored, connected, files, plan, status,
                     caBundle, ev, certs>>
  BY DEF ReconcileMesh, AmbientMeshEnabled, TypeOK
<1>2. /\ pc'[u] = Following(pc[u])
      /\ \A c \in Components \ {"service-mesh"} : st'[u][c] = st[u][c]
  BY <1>1, ExecutedFields
<1>3. /\ HookShape(u)' /\ ~StatusHolds(u)'
      /\ \A r \in Relations : RelationTold(u, r)'
  BY <1>1, <1>2, TurnTaken
<1>4. st'[u]["kubernetes"] = st[u]["kubernetes"] /\ st'[u]["pebble"] = "pending"
  BY <1>1, <1>2 DEF UnitCalm, HookShape, Components
<1>5. TrustSettles(u)'
  BY <1>1, <1>3, <1>4 DEF TrustSettles, UnitCalm, UpToDate
<1>6. meta'[u] = SeenMetadata(u)'
  BY <1>1 DEF ReadMetadata, SeenMetadata
<1>7. ModeSettles(u)'
  BY <1>1, <1>3, <1>4, <1>6 DEF ModeSettles
<1>8. QED BY <1>3, <1>5, <1>7 DEF UnitCalm

LEMMA PebbleNotReadyCalm ==
    ASSUME TypeOK, NEW u \in Units, UnitCalm(u), PebbleNotReady(u)
    PROVE  UnitCalm(u)'
<1> USE DEF juju, pod, cluster
<1>1. /\ pc[u] = "pebble" /\ Executed(u, "waiting")
      /\ UNCHANGED <<rel, metadata, leader, seen, todo, stored, connected, files, plan, status,
                     caBundle, allowAll, ev, certs, meta>>
  BY DEF PebbleNotReady
<1>2. /\ pc'[u] = Following(pc[u]) /\ st'[u]["pebble"] = "waiting"
      /\ \A c \in Components \ {"pebble"} : st'[u][c] = st[u][c]
  BY <1>1, ExecutedFields
<1>3. /\ HookShape(u)' /\ ~StatusHolds(u)'
      /\ \A r \in Relations : RelationTold(u, r)'
  BY <1>1, <1>2, TurnTaken
<1>4. st'[u]["kubernetes"] = st[u]["kubernetes"] /\ st'[u]["service-mesh"] = st[u]["service-mesh"]
  BY <1>2 DEF Components
<1>5. TrustSettles(u)'
  BY <1>1, <1>2, <1>3, <1>4 DEF TrustSettles, UnitCalm, UpToDate
<1>6. ModeSettles(u)'
  BY <1>1, <1>2, <1>3, <1>4 DEF ModeSettles, UnitCalm, UpToDate, ModeKnown, SeenMetadata
<1>7. QED BY <1>3, <1>5, <1>6 DEF UnitCalm

LEMMA UpdatePebbleCalm ==
    ASSUME TypeOK, MetadataRead, NEW u \in Units, UnitCalm(u), UpdatePebble(u)
    PROVE  UnitCalm(u)'
<1> USE DEF juju, pod, cluster
<1>1. /\ pc[u] = "pebble" /\ Ready(u, "pebble") /\ Executed(u, "active")
      /\ files'[u] = Pushed(files[u], certs[u], Len(Files))
      /\ plan'[u] = GetLayer(u)
      /\ UNCHANGED <<rel, metadata, leader, seen, todo, stored, connected, status,
                     caBundle, allowAll, ev, certs, meta>>
  BY DEF UpdatePebble, TypeOK
<1>2. /\ pc'[u] = Following(pc[u])
      /\ \A c \in Components \ {"pebble"} : st'[u][c] = st[u][c]
  BY <1>1, ExecutedFields
<1>3. st[u]["service-mesh"] = "active"
  BY <1>1 DEF Ready, DependsOn, ComponentStatus
<1>4. /\ HookShape(u)' /\ ~StatusHolds(u)'
      /\ \A r \in Relations : RelationTold(u, r)'
  BY <1>1, <1>2, <1>3, TurnTaken
<1>5. st'[u]["kubernetes"] = st[u]["kubernetes"] /\ st'[u]["service-mesh"] = "active"
  BY <1>2, <1>3 DEF Components
<1>6. \A f \in CertFiles : files'[u][f] = certs[u]
  BY <1>1, WholePrefix
<1>7. TrustSettles(u)'
  BY <1>1, <1>4, <1>5, <1>6 DEF TrustSettles, UnitCalm, UpToDate
<1>8. ASSUME ModeKnown(u) PROVE GetLayer(u) = SeenLayer(u)
  <2>1. meta[u] = SeenMetadata(u)
    BY <1>3, <1>8 DEF UnitCalm, ModeSettles
  <2>2. meta[u] # NoData <=> GatewayMetadata \in seen[u]
    BY <1>1, <1>3 DEF MetadataRead
  <2>3. QED BY <2>1, <2>2 DEF GetLayer, SeenLayer, SeenMetadata
<1>9. ModeSettles(u)'
  <2>1. /\ ModeKnown(u)' <=> ModeKnown(u)
        /\ SeenLayer(u)' = SeenLayer(u) /\ SeenMetadata(u)' = SeenMetadata(u)
    BY <1>1 DEF ModeKnown, UpToDate, SeenLayer, SeenMetadata
  <2>2. QED BY <1>1, <1>3, <1>4, <1>8, <2>1 DEF ModeSettles, UnitCalm
<1>10. QED BY <1>4, <1>7, <1>9 DEF UnitCalm

\* The unit is active if, and only if, each component is.
LEMMA FinishCalm ==
    ASSUME TrustInv, NEW u \in Units, UnitCalm(u), Finish(u)
    PROVE  UnitCalm(u)'
<1> USE DEF juju, pod, cluster
<1>0. TypeOK BY DEF TrustInv
<1>1. /\ pc[u] = "finish" /\ pc'[u] = "idle" /\ st'[u] = NotStarted
      /\ stored'[u] = certs[u] /\ ev'[u] = NoEvent
      /\ status'[u] = IF Reconciles(ev[u]) THEN UnitStatus(u) ELSE status[u]
      /\ UNCHANGED <<rel, metadata, leader, seen, todo, connected, files, plan, caBundle, allowAll>>
  BY <1>0 DEF Finish, Unwind, TypeOK
<1>2. certs[u] # NoCert
  BY <1>1 DEF TrustInv, CertificatesInv
<1>3. \A c \in {"kubernetes", "service-mesh", "pebble"} : st'[u][c] = "pending"
  BY <1>1 DEF NotStarted, Components
<1>4. HookShape(u)'
  BY <1>1, <1>3 DEF HookShape
<1>5. \A r \in Relations : RelationTold(u, r)'
  BY <1>1, RelationsKept
<1>6. CASE ~Reconciles(ev[u])
  <2>1. StatusHolds(u)' <=> StatusHolds(u)
    BY <1>1, <1>6 DEF StatusHolds
  <2>2. stored[u] \in {NoCert, certs[u]}
    BY <1>1 DEF UnitCalm, HookShape
  <2>3. TrustSettles(u)'
    BY <1>1, <1>2, <1>3, <2>1, <2>2 DEF TrustSettles, UnitCalm, UpToDate
  <2>4. ModeSettles(u)'
    BY <1>1, <1>3, <2>1 DEF ModeSettles, UnitCalm, UpToDate, ModeKnown, SeenLayer
  <2>5. QED BY <1>4, <1>5, <2>3, <2>4 DEF UnitCalm
<1>7. CASE Reconciles(ev[u])
  <2>1. StatusHolds(u)' => \A c \in {"kubernetes", "service-mesh", "pebble"} : st[u][c] = "active"
    <3>1. StatusHolds(u)' => {ComponentStatus(u, c) : c \in Components} = {"active"}
      BY <1>1, <1>7 DEF StatusHolds, UnitStatus
    <3>2. QED BY <3>1 DEF ComponentStatus, Components
  <2>2. TrustSettles(u)'
    BY <1>1, <1>2, <1>3, <2>1 DEF TrustSettles, UnitCalm, UpToDate
  <2>3. ModeSettles(u)'
    BY <1>1, <1>3, <2>1 DEF ModeSettles, UnitCalm, UpToDate, ModeKnown, SeenLayer
  <2>4. QED BY <1>4, <1>5, <2>2, <2>3 DEF UnitCalm
<1>8. QED BY <1>6, <1>7

-----------------------------------------------------------------------------
\* A unit that has a lifecycle event left, or leads no more, is not settled.
LEMMA UnsettledCalm ==
    ASSUME NEW u \in Units, ~UpToDate(u)', HookShape(u)', \A r \in Relations : RelationTold(u, r)'
    PROVE  UnitCalm(u)'
  BY DEF UnitCalm, TrustSettles, ModeSettles, ModeKnown

\* A lifecycle event comes, and the hook of the unit is what it was, or over.
LEMMA LifecycleCalm ==
    ASSUME TypeOK, NEW u \in Units, UnitCalm(u), todo'[u] = todo[u] \cup {Lifecycle},
           UNCHANGED <<rel, seen, ev>>, HookShape(u)'
    PROVE  UnitCalm(u)'
<1>1. ~UpToDate(u)' BY DEF UpToDate
<1>2. \A r \in Relations : \A x \in {Created(r), Changed(r), Broken(r)} :
        x \in todo'[u] <=> x \in todo[u]
  BY EventsDiffer
<1>3. \A r \in Relations : RelationTold(u, r)'
  BY <1>2, RelationsKept
<1>4. QED BY <1>1, <1>3, UnsettledCalm

\* Nothing of unit u's hook changes.
HookUntouched(u) ==
    /\ pc'[u] = pc[u] /\ ev'[u] = ev[u] /\ certs'[u] = certs[u] /\ st'[u] = st[u]
    /\ meta'[u] = meta[u] /\ stored'[u] = stored[u] /\ status'[u] = status[u]
    /\ seen'[u] = seen[u] /\ files'[u] = files[u] /\ plan'[u] = plan[u]

LEMMA UntouchedShape ==
    ASSUME NEW u \in Units, UnitCalm(u), HookUntouched(u)
    PROVE  HookShape(u)' /\ (StatusHolds(u)' <=> StatusHolds(u))
  BY DEF UnitCalm, HookUntouched, HookShape, StatusHolds

\* The hook that fails leaves a unit whose status is not of its last event, or
\* one that this event does not concern.
LEMMA HookFailsCalm ==
    ASSUME TypeOK, NEW u \in Units, NoneLeaves, UnitCalm(u), HookFails(u)
    PROVE  UnitCalm(u)'
<1> USE DEF juju, pod, cluster
<1>1. /\ pc[u] \notin {"idle", "error"} /\ pc'[u] = "error" /\ st'[u] = NotStarted
      /\ UNCHANGED <<rel, metadata, leader, seen, todo, stored, connected, plan, status, allowAll, ev>>
  BY DEF HookFails, Unwind, TypeOK
<1>2. \A c \in {"kubernetes", "service-mesh", "pebble"} : st'[u][c] = "pending"
  BY <1>1 DEF NotStarted, Components
<1>3. HookShape(u)'
  BY <1>1, <1>2 DEF HookShape, UnitCalm
<1>4. \A r \in Relations : RelationTold(u, r)'
  BY <1>1, RelationsKept
<1>5. CASE Reconciles(ev[u])
  <2>1. ~StatusHolds(u)' BY <1>1, <1>5 DEF StatusHolds
  <2>2. QED BY <1>2, <1>3, <1>4, <2>1 DEF UnitCalm, TrustSettles, ModeSettles
<1>6. CASE ~Reconciles(ev[u])
  <2>1. StatusHolds(u)' <=> StatusHolds(u)
    BY <1>1, <1>6 DEF StatusHolds
  <2>2. pc[u] \notin {"kubernetes", "pebble"}
    BY <1>6 DEF UnitCalm, HookShape
  <2>3. UNCHANGED <<caBundle, files>>
    BY <2>2 DEF HookFails
  <2>4. TrustSettles(u)'
    BY <1>1, <1>2, <2>1, <2>3 DEF UnitCalm, TrustSettles, UpToDate
  <2>5. ModeSettles(u)'
    BY <1>1, <1>2, <2>1 DEF UnitCalm, ModeSettles, ModeKnown, UpToDate, SeenLayer
  <2>6. QED BY <1>3, <1>4, <2>4, <2>5 DEF UnitCalm
<1>7. QED BY <1>5, <1>6

LEMMA LeadershipCalm ==
    ASSUME TypeOK, Calm, NEW u \in Units, BecomeLeader(u), NEW v \in Units
    PROVE  UnitCalm(v)'
<1> USE DEF juju, pod, cluster, hook
<1>1. UnitCalm(v) BY DEF Calm
<1>2. /\ leader' = u /\ todo'[v] = IF v = u THEN todo[v] \cup {Lifecycle} ELSE todo[v]
      /\ UNCHANGED <<rel, seen, ev>>
  BY DEF BecomeLeader, TypeOK
<1>3. HookUntouched(v)
  BY DEF BecomeLeader, HookUntouched
<1>4. HookShape(v)' BY <1>1, <1>3, UntouchedShape
<1>5. CASE v = u BY <1>1, <1>2, <1>4, <1>5, LifecycleCalm
<1>6. CASE v # u
  <2>1. ~UpToDate(v)' BY <1>2, <1>6 DEF UpToDate
  <2>2. \A r \in Relations : RelationTold(v, r)' BY <1>1, <1>2, <1>6, RelationsKept
  <2>3. QED BY <1>4, <2>1, <2>2, UnsettledCalm
<1>7. QED BY <1>5, <1>6

LEMMA UpdateStatusCalm ==
    ASSUME TypeOK, NEW u \in Units, UnitCalm(u), UpdateStatus(u)
    PROVE  UnitCalm(u)'
<1> USE DEF juju, pod, cluster, hook
<1>1. todo'[u] = todo[u] \cup {Lifecycle} /\ UNCHANGED <<rel, seen, ev>>
  BY DEF UpdateStatus, TypeOK
<1>2. HookUntouched(u) BY DEF UpdateStatus, HookUntouched
<1>3. QED BY <1>1, <1>2, UntouchedShape, LifecycleCalm

LEMMA PebbleReadyCalm ==
    ASSUME TypeOK, NEW u \in Units, NoneLeaves, UnitCalm(u), PebbleReady(u)
    PROVE  UnitCalm(u)'
<1> USE DEF juju, pod, cluster, hook
<1>1. todo'[u] = todo[u] \cup {Lifecycle} /\ UNCHANGED <<rel, seen, ev>>
  BY DEF PebbleReady, NoneLeaves, Leaving, TypeOK
<1>2. HookUntouched(u) BY DEF PebbleReady, HookUntouched
<1>3. QED BY <1>1, <1>2, UntouchedShape, LifecycleCalm

LEMMA PodChurnCalm ==
    ASSUME TypeOK, NEW u \in Units, NoneLeaves, UnitCalm(u), PodChurn(u)
    PROVE  UnitCalm(u)'
<1> USE DEF juju, pod, cluster, hook
<1>1. todo'[u] = todo[u] \cup {Lifecycle} /\ UNCHANGED <<rel, seen, ev>>
  BY DEF PodChurn, LoseContainer, NoneLeaves, Leaving, TypeOK
<1>2. pc'[u] = (IF pc[u] = "idle" THEN "idle" ELSE "error") /\ st'[u] = NotStarted
  BY DEF PodChurn, Unwind, TypeOK
<1>3. HookShape(u)'
  BY <1>1, <1>2 DEF UnitCalm, HookShape, NotStarted, Components
<1>4. QED BY <1>1, <1>3, LifecycleCalm

LEMMA ContainerRestartsCalm ==
    ASSUME TypeOK, NEW u \in Units, UnitCalm(u), ContainerRestarts(u)
    PROVE  UnitCalm(u)'
<1> USE DEF juju, pod, cluster, hook
<1>1. /\ connected'[u] = FALSE
      /\ UNCHANGED <<rel, metadata, leader, seen, todo, stored, status, caBundle, allowAll, pc, ev,
                     certs, st, meta>>
  BY DEF ContainerRestarts, LoseContainer, TypeOK
<1>2. HookShape(u)' /\ (StatusHolds(u)' <=> StatusHolds(u))
  BY <1>1 DEF UnitCalm, HookShape, StatusHolds
<1>3. TrustSettles(u)'
  BY <1>1, <1>2 DEF UnitCalm, TrustSettles, UpToDate
<1>4. ModeSettles(u)'
  BY <1>1, <1>2 DEF UnitCalm, ModeSettles, ModeKnown, UpToDate, SeenMetadata
<1>5. \A r \in Relations : RelationTold(u, r)'
  BY <1>1, RelationsKept
<1>6. QED BY <1>2, <1>3, <1>4, <1>5 DEF UnitCalm

-----------------------------------------------------------------------------
\* Relations come, change and go while no hook makes progress.
RelationsMove(u) ==
    /\ HookUntouched(u)
    /\ UNCHANGED <<leader, connected, caBundle, allowAll>>
    /\ Lifecycle \in todo'[u] <=> Lifecycle \in todo[u]

LEMMA RelationsMoveCalm ==
    ASSUME NEW u \in Units, UnitCalm(u), RelationsMove(u),
           ModeKnown(u)' =>
              ModeKnown(u) /\ (GatewayMetadata \in seen[u] => metadata' = metadata),
           \A r \in Relations : RelationTold(u, r)'
    PROVE  UnitCalm(u)'
<1>1. HookShape(u)' /\ (StatusHolds(u)' <=> StatusHolds(u))
  BY UntouchedShape DEF RelationsMove
<1>2. UpToDate(u)' <=> UpToDate(u)
  BY DEF RelationsMove, UpToDate
<1>3. TrustSettles(u)'
  BY <1>1, <1>2 DEF UnitCalm, TrustSettles, RelationsMove, HookUntouched
<1>4. ASSUME ModeKnown(u)' PROVE SeenMetadata(u)' = SeenMetadata(u) /\ SeenLayer(u)' = SeenLayer(u)
  BY <1>4 DEF SeenMetadata, SeenLayer, RelationsMove, HookUntouched
<1>5. ModeSettles(u)'
  <2> SUFFICES ASSUME ModeKnown(u)' PROVE ModeSettles(u)'
    BY DEF ModeSettles
  <2>1. ModeKnown(u) OBVIOUS
  <2>2. QED BY <1>1, <1>4, <2>1 DEF UnitCalm, ModeSettles, RelationsMove, HookUntouched
<1>6. QED BY <1>1, <1>3, <1>5 DEF UnitCalm

LEMMA RelateCalm ==
    ASSUME TypeOK, Calm, NEW r \in Relations, Relate(r), NEW u \in Units
    PROVE  UnitCalm(u)'
<1> USE DEF juju, pod, cluster, hook
<1>1. UnitCalm(u) /\ u \in Staying
  BY DEF Calm, NoneLeaves, Staying, Leaving
<1>2. todo'[u] = todo[u] \cup {Created(r), Changed(r)}
  BY <1>1 DEF Relate
<1>3. /\ rel[r] = "absent" /\ rel'[r] = "alive"
      /\ \A q \in Relations \ {r} : rel'[q] = rel[q]
      /\ UNCHANGED <<seen, ev, metadata>>
  BY DEF Relate, TypeOK
<1>4. RelationsMove(u)
  BY <1>2, EventsDiffer DEF Relate, RelationsMove, HookUntouched
<1>5. ModeKnown(u)' => ModeKnown(u)
  BY <1>2, <1>4, EventsDiffer DEF ModeKnown, RelationsMove, UpToDate, HookUntouched, Relations
<1>6. ASSUME NEW q \in Relations PROVE RelationTold(u, q)'
  <2>1. RelationTold(u, q) BY <1>1 DEF UnitCalm
  <2>2. CASE q = r BY <1>2, <1>3, <2>1, <2>2, EventsDiffer DEF RelationTold
  <2>3. CASE q # r
    <3>1. \A x \in {Created(q), Changed(q), Broken(q)} : x \in todo'[u] <=> x \in todo[u]
      BY <1>2, <2>3, EventsDiffer
    <3>2. QED BY <1>3, <2>1, <2>3, <3>1, RelationKept
  <2>4. QED BY <2>2, <2>3
<1>7. QED BY <1>1, <1>3, <1>4, <1>5, <1>6, RelationsMoveCalm

LEMMA PublishMetadataCalm ==
    ASSUME TypeOK, Calm, NEW g \in Gateways, PublishMetadata(g), NEW u \in Units
    PROVE  UnitCalm(u)'
<1> USE DEF juju, pod, cluster, hook
<1> DEFINE r == GatewayMetadata
<1>1. UnitCalm(u) /\ u \in Staying /\ r \in Relations
  BY DEF Calm, NoneLeaves, Staying, Leaving, Relations
<1>2. todo'[u] = todo[u] \cup {Changed(r)}
  BY <1>1 DEF PublishMetadata
<1>3. rel[r] = "alive" /\ UNCHANGED <<rel, seen, ev>>
  BY DEF PublishMetadata
<1>4. RelationsMove(u)
  BY <1>1, <1>2, EventsDiffer DEF PublishMetadata, RelationsMove, HookUntouched
<1>5. ModeKnown(u)' => ModeKnown(u) /\ (GatewayMetadata \in seen[u] => metadata' = metadata)
  BY <1>1, <1>2, <1>3, <1>4, EventsDiffer DEF ModeKnown, RelationsMove, UpToDate
<1>6. ASSUME NEW q \in Relations PROVE RelationTold(u, q)'
  <2>1. RelationTold(u, q) BY <1>1 DEF UnitCalm
  <2>2. CASE q = r BY <1>1, <1>2, <1>3, <2>1, <2>2, EventsDiffer DEF RelationTold
  <2>3. CASE q # r
    <3>1. \A x \in {Created(q), Changed(q), Broken(q)} : x \in todo'[u] <=> x \in todo[u]
      BY <1>1, <1>2, <2>3, EventsDiffer
    <3>2. QED BY <1>3, <2>1, <2>3, <3>1, RelationKept
  <2>4. QED BY <2>2, <2>3
<1>7. QED BY <1>1, <1>4, <1>5, <1>6, RelationsMoveCalm

LEMMA BreakRelationCalm ==
    ASSUME TypeOK, Calm, NEW r \in Relations, BreakRelation(r), NEW u \in Units
    PROVE  UnitCalm(u)'
<1> USE DEF juju, pod, cluster, hook
<1>1. UnitCalm(u) /\ u \in Staying
  BY DEF Calm, NoneLeaves, Staying, Leaving
<1>2. todo'[u] = (todo[u] \ {Created(r), Changed(r)})
                    \cup (IF r \in seen[u] THEN {Broken(r)} ELSE {})
  BY <1>1 DEF BreakRelation
<1>3. /\ rel[r] = "alive" /\ rel'[r] = "dying"
      /\ \A q \in Relations \ {r} : rel'[q] = rel[q]
      /\ UNCHANGED <<seen, ev, metadata>>
  BY DEF BreakRelation, TypeOK
<1>4. RelationsMove(u)
  BY <1>2, EventsDiffer DEF BreakRelation, RelationsMove, HookUntouched
<1>5. ModeKnown(u)' => ModeKnown(u)
  <2>1. GatewayMetadata \in Relations BY DEF Relations
  <2>2. UpToDate(u)' => UpToDate(u) BY <1>4 DEF UpToDate, RelationsMove
  <2>3. Broken(GatewayMetadata) \in todo[u] => Broken(GatewayMetadata) \in todo'[u]
    BY <1>2, <2>1, EventsDiffer
  <2>4. CASE r = GatewayMetadata
    BY <1>2, <1>3, <2>2, <2>3, <2>4 DEF ModeKnown
  <2>5. CASE r # GatewayMetadata
    <3>1. Changed(GatewayMetadata) \in todo'[u] <=> Changed(GatewayMetadata) \in todo[u]
      BY <1>2, <2>1, <2>5, EventsDiffer
    <3>2. QED BY <1>3, <2>2, <2>3, <3>1 DEF ModeKnown
  <2>6. QED BY <2>4, <2>5
<1>6. ASSUME NEW q \in Relations PROVE RelationTold(u, q)'
  <2>1. RelationTold(u, q) BY <1>1 DEF UnitCalm
  <2>2. CASE q = r BY <1>2, <1>3, <2>1, <2>2, EventsDiffer DEF RelationTold
  <2>3. CASE q # r
    <3>1. \A x \in {Created(q), Changed(q), Broken(q)} : x \in todo'[u] <=> x \in todo[u]
      BY <1>2, <2>3, EventsDiffer
    <3>2. QED BY <1>3, <2>1, <2>3, <3>1, RelationKept
  <2>4. QED BY <2>2, <2>3
<1>7. QED BY <1>1, <1>3, <1>4, <1>5, <1>6, RelationsMoveCalm

LEMMA RelationGoneCalm ==
    ASSUME TypeOK, Calm, NEW r \in Relations, RelationGone(r), NEW u \in Units
    PROVE  UnitCalm(u)'
<1> USE DEF juju, pod, cluster, hook
<1>1. UnitCalm(u) BY DEF Calm
<1>2. /\ rel[r] = "dying" /\ rel'[r] = "absent" /\ r \notin seen[u] /\ ev[u] # Broken(r)
      /\ \A q \in Relations \ {r} : rel'[q] = rel[q]
      /\ metadata' = IF r = GatewayMetadata THEN NoData ELSE metadata
      /\ UNCHANGED <<seen, todo, ev>>
  BY DEF RelationGone, TypeOK
<1>3. RelationsMove(u)
  BY <1>2 DEF RelationGone, RelationsMove, HookUntouched
<1>4. ModeKnown(u)' => ModeKnown(u) /\ (GatewayMetadata \in seen[u] => metadata' = metadata)
  BY <1>2, <1>3 DEF ModeKnown, RelationsMove, UpToDate
<1>5. ASSUME NEW q \in Relations PROVE RelationTold(u, q)'
  <2>1. RelationTold(u, q) BY <1>1 DEF UnitCalm
  <2>2. CASE q = r BY <1>2, <2>1, <2>2 DEF RelationTold
  <2>3. CASE q # r BY <1>2, <2>1, <2>3, RelationKept
  <2>4. QED BY <2>2, <2>3
<1>6. QED BY <1>1, <1>3, <1>4, <1>5, RelationsMoveCalm

-----------------------------------------------------------------------------
\* While no unit has been told to leave, none leaves.
LEMMA NoneLeavesStep ==
    ASSUME TypeOK, TypeOK', Calm, Next, spent'["remove"] = 0
    PROVE  NoneLeaves'
<1> USE DEF juju, pod, cluster, hook
<1>1. \A u \in Units : ~RemoveComponents(u)
  BY DEF RemoveComponents, Calm, NoneLeaves
<1>2. \A u \in Units : ~ScaleDown(u)
  BY DEF ScaleDown, Spend, TypeOK, EnvSteps
<1>3. members' = members
  BY <1>1, <1>2 DEF Next, Environment, HookStep, Dispatch, PassOver, ApplyResources, ReconcileMesh,
     PebbleNotReady, UpdatePebble, Finish, HookFails, LeadershipMoves, LeaseExpires, BecomeLeader,
     UpdateStatus, ContainerRestarts, PodChurn, LoseContainer, PebbleReady, Relate, BreakRelation,
     RelationGone, PublishMetadata
<1>4. ASSUME NEW u \in Units PROVE Removal \notin todo'[u]
  <2>1. \A r \in Relations : Removal \notin {Lifecycle, Created(r), Changed(r), Broken(r)}
    BY EventsDiffer
  <2>2. Removal \notin todo[u] /\ GatewayMetadata \in Relations
    BY DEF Calm, NoneLeaves, Relations
  <2>3. ASSUME NEW v \in Units, HookStep(v) PROVE Removal \notin todo'[u]
    <3>1. ASSUME NEW e \in Event, Dispatch(v, e) PROVE todo'[u] \subseteq todo[u]
      BY <3>1 DEF Dispatch, TypeOK
    <3>2. CASE todo' = todo BY <2>2, <3>2
    <3>3. QED
      BY <1>1, <2>2, <2>3, <3>1, <3>2 DEF HookStep, PassOver, ApplyResources, ReconcileMesh,
         PebbleNotReady, UpdatePebble, Finish
  <2>4. ASSUME NEW r \in Relations, Relate(r) \/ BreakRelation(r) \/ RelationGone(r)
        PROVE  Removal \notin todo'[u]
    <3>1. todo'[u] \subseteq todo[u] \cup {Created(r), Changed(r), Broken(r)}
      BY <2>4 DEF Relate, BreakRelation, RelationGone
    <3>2. QED BY <2>1, <2>2, <3>1
  <2>5. ASSUME NEW g \in Gateways, PublishMetadata(g) PROVE Removal \notin todo'[u]
    BY <2>1, <2>2, <2>5 DEF PublishMetadata
  <2>6. ASSUME NEW v \in Units,
               HookFails(v) \/ LeadershipMoves(v) \/ LeaseExpires(v) \/ UpdateStatus(v)
                 \/ ContainerRestarts(v) \/ PodChurn(v) \/ PebbleReady(v)
        PROVE  Removal \notin todo'[u]
    <3>1. todo'[u] \subseteq todo[u] \cup {Lifecycle}
      <4>1. CASE todo' = todo BY <4>1
      <4>2. ASSUME NEW x \in {todo[v], todo[v] \cup {Lifecycle}}, todo' = [todo EXCEPT ![v] = x]
            PROVE  todo'[u] \subseteq todo[u] \cup {Lifecycle}
        BY <4>2 DEF TypeOK
      <4>3. PodChurn(v) \/ PebbleReady(v) => todo' = todo \/
              \E x \in {todo[v], todo[v] \cup {Lifecycle}} : todo' = [todo EXCEPT ![v] = x]
        BY DEF PodChurn, PebbleReady
      <4>4. QED
        BY <2>6, <4>1, <4>2, <4>3 DEF HookFails, LeadershipMoves, LeaseExpires, BecomeLeader,
           UpdateStatus, ContainerRestarts
    <3>2. QED BY <2>1, <2>2, <3>1
  <2>7. QED BY <1>2, <2>3, <2>4, <2>5, <2>6 DEF Next, Environment
<1>5. ASSUME NEW u \in Units PROVE ev'[u] # Removal /\ pc'[u] # "remove"
  <2>1. ev[u] # Removal /\ pc[u] # "remove" /\ NoEvent # Removal /\ UnitCalm(u)
    BY EventTypes, ConstantsAssumption DEF Calm, NoneLeaves
  <2>2. ASSUME NEW v \in Units, NEW e \in Event, Dispatch(v, e)
        PROVE  ev'[u] # Removal /\ pc'[u] # "remove"
    <3>1. CASE u = v
      <4>1. /\ ev'[u] = e
            /\ \E r \in Relations : e \in {Created(r), Changed(r), Broken(r)} \/ e = Lifecycle
            /\ pc'[u] = IF Reconciles(e) THEN "kubernetes" ELSE "finish"
        BY <2>2, <3>1, DispatchedEvent DEF Calm
      <4>2. QED BY <4>1, EventsDiffer
    <3>2. CASE u # v BY <2>1, <2>2, <3>2 DEF Dispatch, TypeOK
    <3>3. QED BY <3>1, <3>2
  <2>3. ASSUME NEW v \in Units,
               PassOver(v) \/ ApplyResources(v) \/ ReconcileMesh(v) \/ PebbleNotReady(v)
                 \/ UpdatePebble(v)
        PROVE  ev'[u] # Removal /\ pc'[u] # "remove"
    BY <2>1, <2>3 DEF PassOver, ApplyResources, ReconcileMesh, PebbleNotReady, UpdatePebble,
       Executed, Following, TypeOK
  <2>4. ASSUME NEW v \in Units, Finish(v) \/ HookFails(v) \/ PodChurn(v)
        PROVE  ev'[u] # Removal /\ pc'[u] # "remove"
    BY <2>1, <2>4 DEF Finish, HookFails, PodChurn, LoseContainer, Unwind, TypeOK
  <2>5. CASE UNCHANGED <<ev, pc>> BY <2>1, <2>5
  <2>6. QED
    BY <1>1, <1>2, <2>2, <2>3, <2>4, <2>5 DEF Next, Environment, HookStep, LeadershipMoves,
       LeaseExpires, BecomeLeader, UpdateStatus, ContainerRestarts, LoseContainer, PebbleReady,
       Relate, BreakRelation, RelationGone, PublishMetadata
<1>6. QED BY <1>3, <1>4, <1>5 DEF NoneLeaves, Calm

\* The steps of one unit leave the others alone, but for what a leader writes.
LEMMA OthersKept ==
    ASSUME TypeOK, Calm, NEW u \in Units, ~RemoveComponents(u), ~ScaleDown(u),
           \/ HookStep(u) \/ HookFails(u) \/ UpdateStatus(u) \/ ContainerRestarts(u)
           \/ PodChurn(u) \/ PebbleReady(u)
    PROVE  UNCHANGED <<rel, metadata, leader>> /\ \A v \in Units \ {u} : UnitKept(v)
<1> USE DEF juju, pod, cluster, hook
<1>1. UNCHANGED <<rel, metadata, leader>>
  BY DEF HookStep, Dispatch, PassOver, ApplyResources, ReconcileMesh, PebbleNotReady,
     UpdatePebble, Finish, HookFails, UpdateStatus, ContainerRestarts, PodChurn, LoseContainer,
     PebbleReady
<1>2. Ready(u, "kubernetes") \/ Ready(u, "service-mesh") => leader = u
  BY DEF Ready, DependsOn, ComponentStatus
<1>3. leader = u \/ UNCHANGED <<caBundle, allowAll>>
  BY <1>2 DEF HookStep, Dispatch, PassOver, ApplyResources, ReconcileMesh, PebbleNotReady,
     UpdatePebble, Finish, HookFails, UpdateStatus, ContainerRestarts, PodChurn, LoseContainer,
     PebbleReady
<1> DEFINE Same(v) ==
        /\ pc'[v] = pc[v] /\ ev'[v] = ev[v] /\ certs'[v] = certs[v] /\ st'[v] = st[v]
        /\ meta'[v] = meta[v] /\ stored'[v] = stored[v] /\ status'[v] = status[v]
        /\ seen'[v] = seen[v] /\ todo'[v] = todo[v] /\ connected'[v] = connected[v]
        /\ files'[v] = files[v] /\ plan'[v] = plan[v]
<1>4. ASSUME NEW v \in Units \ {u} PROVE Same(v)
  <2>1. ASSUME NEW e \in Event, Dispatch(u, e) PROVE Same(v)
    BY <2>1 DEF Dispatch, TypeOK
  <2>2. CASE PassOver(u) \/ UpdateStatus(u)
    BY <2>2 DEF PassOver, UpdateStatus, TypeOK
  <2>3. CASE ApplyResources(u) \/ ReconcileMesh(u) \/ PebbleNotReady(u)
    BY <2>3 DEF ApplyResources, ReconcileMesh, PebbleNotReady, Executed, TypeOK
  <2>4. CASE UpdatePebble(u) BY <2>4 DEF UpdatePebble, Executed, TypeOK
  <2>5. CASE Finish(u) BY <2>5 DEF Finish, Unwind, TypeOK
  <2>6. CASE HookFails(u) BY <2>6 DEF HookFails, Unwind, TypeOK
  <2>7. CASE ContainerRestarts(u) BY <2>7 DEF ContainerRestarts, LoseContainer, TypeOK
  <2>8. CASE PodChurn(u) BY <2>8 DEF PodChurn, LoseContainer, Unwind, TypeOK
  <2>9. CASE PebbleReady(u) BY <2>9 DEF PebbleReady, TypeOK
  <2>10. QED
    BY <2>1, <2>2, <2>3, <2>4, <2>5, <2>6, <2>7, <2>8, <2>9 DEF HookStep
<1>5. QED BY <1>1, <1>3, <1>4 DEF UnitKept

\* What the charm is once none of its units leaves, with what was proved before.
SettledLeaderInv == TrustInv /\ ModeInv /\ SettledInv

LEMMA SettledStep == SettledLeaderInv /\ [Next]_vars => SettledLeaderInv'
<1> SUFFICES ASSUME SettledLeaderInv, [Next]_vars PROVE SettledLeaderInv'
  OBVIOUS
<1>1. /\ TrustInv /\ ModeInv /\ SettledInv /\ TypeOK /\ MetadataRead
      /\ TrustInv' /\ ModeInv' /\ TypeOK'
  BY CertificatesStep, ModeStep DEF SettledLeaderInv, TrustInv, ModeInv
<1> SUFFICES SettledInv' BY <1>1 DEF SettledLeaderInv
<1>2. CASE UNCHANGED vars
  BY <1>1, <1>2 DEF vars, juju, pod, cluster, hook, SettledInv, Calm, NoneLeaves, UnitCalm,
     HookShape, TrustSettles, ModeSettles, RelationTold, UpToDate, ModeKnown, StatusHolds,
     SeenMetadata, SeenLayer
<1>3. CASE Next
  <2> SUFFICES ASSUME spent'["remove"] = 0 PROVE Calm'
    BY DEF SettledInv
  <2> USE DEF juju, pod, cluster, hook
  <2>1. ASSUME NEW k \in EnvSteps, Spend(k) PROVE spent["remove"] = 0
    BY <1>1, <2>1 DEF Spend, TypeOK, EnvSteps
  <2>2. spent["remove"] = 0
    BY <1>3, <2>1 DEF Next, Environment, HookStep, Dispatch, PassOver, ApplyResources,
       ReconcileMesh, PebbleNotReady, UpdatePebble, Finish, RemoveComponents, HookFails,
       LeadershipMoves, LeaseExpires, UpdateStatus, ContainerRestarts, PodChurn, PebbleReady,
       ScaleDown, Relate, BreakRelation, RelationGone, PublishMetadata, EnvSteps
  <2>3. Calm BY <1>1, <2>2 DEF SettledInv
  <2>4. NoneLeaves' BY <1>1, <1>3, <2>3, NoneLeavesStep
  <2>5. \A u \in Units : ~RemoveComponents(u)
    BY <2>3 DEF RemoveComponents, Calm, NoneLeaves
  <2>6. \A u \in Units : ~ScaleDown(u)
    BY <1>1, <2>2 DEF ScaleDown, Spend, TypeOK, EnvSteps
  <2>7. ASSUME NEW u \in Units, UnitCalm(u)',
               \/ HookStep(u) \/ HookFails(u) \/ UpdateStatus(u) \/ ContainerRestarts(u)
               \/ PodChurn(u) \/ PebbleReady(u)
        PROVE  \A v \in Units : UnitCalm(v)'
    <3>1. UNCHANGED <<rel, metadata, leader>> /\ \A v \in Units \ {u} : UnitKept(v)
      BY <1>1, <2>3, <2>5, <2>6, <2>7, OthersKept
    <3>2. \A v \in Units \ {u} : UnitCalm(v)'
      BY <2>3, <3>1, KeptCalm DEF Calm
    <3>3. QED BY <2>7, <3>2
  <2>8. ASSUME NEW u \in Units, HookStep(u) PROVE \A v \in Units : UnitCalm(v)'
    <3>1. UnitCalm(u) /\ NoneLeaves BY <2>3 DEF Calm
    <3>2. ASSUME NEW e \in Event, Dispatch(u, e) PROVE UnitCalm(u)'
      BY <1>1, <3>1, <3>2, DispatchCalm
    <3>3. UnitCalm(u)'
      BY <1>1, <2>5, <2>8, <3>1, <3>2, PassOverCalm, ApplyResourcesCalm, ReconcileMeshCalm,
         PebbleNotReadyCalm, UpdatePebbleCalm, FinishCalm DEF HookStep
    <3>4. QED BY <2>7, <2>8, <3>3
  <2>9. ASSUME NEW u \in Units,
               \/ HookFails(u) \/ UpdateStatus(u) \/ ContainerRestarts(u) \/ PodChurn(u)
               \/ PebbleReady(u)
        PROVE  \A v \in Units : UnitCalm(v)'
    <3>1. UnitCalm(u) /\ NoneLeaves BY <2>3 DEF Calm
    <3>2. UnitCalm(u)'
      BY <1>1, <2>9, <3>1, HookFailsCalm, UpdateStatusCalm, ContainerRestartsCalm, PodChurnCalm,
         PebbleReadyCalm
    <3>3. QED BY <2>7, <2>9, <3>2
  <2>10. ASSUME NEW u \in Units, LeadershipMoves(u) \/ LeaseExpires(u)
         PROVE  \A v \in Units : UnitCalm(v)'
    BY <1>1, <2>3, <2>10, LeadershipCalm DEF LeadershipMoves, LeaseExpires
  <2>11. ASSUME NEW r \in Relations, Relate(r) \/ BreakRelation(r) \/ RelationGone(r)
         PROVE  \A v \in Units : UnitCalm(v)'
    BY <1>1, <2>3, <2>11, RelateCalm, BreakRelationCalm, RelationGoneCalm
  <2>12. ASSUME NEW g \in Gateways, PublishMetadata(g)
         PROVE  \A v \in Units : UnitCalm(v)'
    BY <1>1, <2>3, <2>12, PublishMetadataCalm
  <2>13. \A v \in Units : UnitCalm(v)'
    BY <1>3, <2>6, <2>8, <2>9, <2>10, <2>11, <2>12 DEF Next, Environment
  <2>14. QED BY <2>4, <2>13 DEF Calm
<1>4. QED BY <1>2, <1>3

LEMMA InitSettled == Init => SettledLeaderInv
<1> SUFFICES ASSUME Init PROVE SettledLeaderInv
  OBVIOUS
<1>1. TrustInv /\ ModeInv
  BY InitTrustInv, InitTypeOK
     DEF Init, ModeInv, MetadataRead, PlanNeverMixed, NotStarted, Components
<1>2. NoneLeaves
  BY EventTypes, EventsDiffer, ConstantsAssumption DEF Init, NoneLeaves, Relations
<1>3. ASSUME NEW u \in Units PROVE UnitCalm(u)
  <2>1. \A c \in Components : st[u][c] = "pending"
    BY DEF Init, NotStarted
  <2>2. pc[u] = "idle" /\ ev[u] = NoEvent /\ status[u] = "pending" /\ todo[u] = {Lifecycle}
    BY DEF Init
  <2>3. HookShape(u) BY <2>1, <2>2 DEF HookShape, Components
  <2>4. TrustSettles(u) /\ ModeSettles(u)
    BY <2>2 DEF TrustSettles, ModeSettles, ModeKnown, UpToDate
  <2>5. \A r \in Relations : RelationTold(u, r)
    <3> TAKE r \in Relations
    <3>1. {Created(r), Changed(r), Broken(r)} \cap todo[u] = {}
      BY <2>2, EventsDiffer
    <3>2. NoEvent \notin {Created(r), Changed(r), Broken(r)}
      BY EventTypes, ConstantsAssumption
    <3>3. rel[r] = "absent" /\ seen[u] = {} BY DEF Init
    <3>4. QED BY <2>2, <3>1, <3>2, <3>3 DEF RelationTold
  <2>6. QED BY <2>3, <2>4, <2>5 DEF UnitCalm
<1>4. QED BY <1>1, <1>2, <1>3 DEF SettledLeaderInv, SettledInv, Calm

\* A leader whose queue is empty has no event left that would correct what its
\* status says.
LEMMA SettledLeader ==
    ASSUME SettledLeaderInv, spent["remove"] = 0, LeaderSettled
    PROVE  TrustAtActive /\ SettledModeAgrees
<1>1. leader \in Units /\ Calm /\ UnitCalm(leader)
  BY DEF SettledLeaderInv, SettledInv, Calm, TrustInv, TypeOK
<1>2. UpToDate(leader) /\ ModeKnown(leader) /\ StatusHolds(leader) /\ connected[leader]
  BY DEF LeaderSettled, UpToDate, ModeKnown, StatusHolds
<1>3. TrustAtActive
  BY <1>1, <1>2 DEF UnitCalm, TrustSettles, TrustAtActive
<1>4. rel[GatewayMetadata] = "alive" <=> GatewayMetadata \in seen[leader]
  <2>1. RelationTold(leader, GatewayMetadata) BY <1>1 DEF UnitCalm, Relations
  <2>2. rel[GatewayMetadata] \in {"absent", "alive", "dying"}
    BY DEF SettledLeaderInv, TrustInv, TypeOK, Relations
  <2>3. QED BY <2>1, <2>2 DEF RelationTold, LeaderSettled
<1>5. SettledModeAgrees
  BY <1>1, <1>2, <1>4 DEF UnitCalm, ModeSettles, SettledModeAgrees, SeenLayer
<1>6. QED BY <1>3, <1>5

\* As long as no unit is removed, a leader that has settled serves the one
\* certificate that the API server trusts and its StoredState keeps: with any
\* number of units, handovers, failing hooks, restarts and rescheduled pods.
THEOREM SettledTrust == Spec => []TrustAtActive
<1>1. SettledLeaderInv => TrustAtActive
  BY SettledLeader DEF TrustAtActive
<1>2. QED BY <1>1, InitSettled, SettledStep, PTL DEF Spec

\* As long as no unit is removed, the mesh mode of a leader that has settled,
\* the gateway its workload is told and the allow-all policy are those of the
\* gateway relation, however often that came, changed and went.
THEOREM SettledMode == Spec => [](spent["remove"] = 0 => SettledModeAgrees)
<1>1. SettledLeaderInv => (spent["remove"] = 0 => SettledModeAgrees)
  BY SettledLeader DEF SettledModeAgrees
<1>2. QED BY <1>1, InitSettled, SettledStep, PTL DEF Spec
=============================================================================
