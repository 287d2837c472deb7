----------------------------- MODULE MeshLabels -----------------------------
(***************************************************************************)
(* How ServiceMeshConsumer (service_mesh.py) puts the application on the   *)
(* mesh: reconcile_charm_labels sets the labels that the beacon announces  *)
(* on the StatefulSet and the Service, and keeps the keys it manages in a  *)
(* ConfigMap.  Every unit runs it in its own hooks, one Kubernetes call at *)
(* a time; objects carry a resourceVersion, and a patch computed from an   *)
(* object that has changed meanwhile is refused (HTTP 409).                *)
(***************************************************************************)
EXTENDS Naturals, FiniteSets

CONSTANTS
    Units,   \* units of the application
    Labels,  \* labels the beacon may ask for
    Foreign, \* labels put there by others
    Limit    \* how often the environment takes each of its steps

EnvSteps == {"relate", "announce", "break", "fault", "leader"}

ASSUME ConstantsAssumption ==
    Labels \cap Foreign = {} /\ Limit \in [EnvSteps -> Nat]

Objects == {"configmap", "statefulset", "service"}
Steps   == {"idle", "error", "get", "get-map", "create-map", "configmap",
            "statefulset", "service", "delete"}

VARIABLES
    leader,
    relation,  \* "none", "alive" or "dying"
    announced, \* labels in the beacon's application data
    todo,      \* todo[u]: events queued for u, among "changed" and "broken"
    seen,      \* units whose hooks see the relation
    mapExists, \* the ConfigMap exists
    keys,      \* keys[o]: labels recorded in, or set on, object o
    version,   \* version[o]: resourceVersion of object o
    pc, ev,    \* pc[u]: next Kubernetes call of u's hook; ev[u]: its event
    want,      \* want[u]: the labels the call is to establish
    read,      \* read[u][o]: the version of o the hook has read, 0 for none
    drop,      \* drop[u]: keys that the patches delete
    spent

juju == <<leader, relation, announced, seen>>
kube == <<mapExists, keys, version>>
call == <<pc, ev, want, read, drop>>
vars == <<juju, todo, kube, call, spent>>

-----------------------------------------------------------------------------
\* mutation: the labels the Service has are passed back
WantedKeepingService(e) == IF e = "broken" THEN {} ELSE announced \cup keys["service"]

\* Which labels a hook passes to reconcile_charm_labels.
WantedLabels(e) == IF e = "broken" THEN {} ELSE announced

\* mutation: whatever the StatefulSet carries beyond the wanted labels goes
ForgottenUnknown(u) == keys["statefulset"] \ want[u]

\* Keys that the ConfigMap has and the caller no longer wants.
Forgotten(u) == keys["configmap"] \ want[u]

Deliverable(u, e) ==
    \/ pc[u] = "error" /\ ev[u] = e
    \/ pc[u] = "idle" /\ e \in todo[u]

\* mutation: relation_changed, too, is left to the leader
HandleOnLeader(u, e) ==
    /\ Deliverable(u, e)
    /\ todo' = [todo EXCEPT ![u] = @ \ {e}]
    /\ ev' = [ev EXCEPT ![u] = e]
    /\ seen' = IF e = "broken" THEN seen \ {u} ELSE seen \cup {u}
    /\ want' = [want EXCEPT ![u] = WantedLabels(e)]
    /\ pc' = [pc EXCEPT ![u] = IF leader # u THEN "idle" ELSE "get"]
    /\ UNCHANGED <<leader, relation, announced, kube, read, drop, spent>>

\* relation_changed runs on every unit; relation_broken on the leader only,
\* and there the consumer no longer sees the relation.
Handle(u, e) ==
    /\ Deliverable(u, e)
    /\ todo' = [todo EXCEPT ![u] = @ \ {e}]
    /\ ev' = [ev EXCEPT ![u] = e]
    /\ seen' = IF e = "broken" THEN seen \ {u} ELSE seen \cup {u}
    /\ want' = [want EXCEPT ![u] = WantedLabels(e)]
    /\ pc' = [pc EXCEPT ![u] = IF e = "broken" /\ leader # u THEN "idle" ELSE "get"]
    /\ UNCHANGED <<leader, relation, announced, kube, read, drop, spent>>

Goes(u, next) == pc' = [pc EXCEPT ![u] = next]

\* client.get of the StatefulSet and of the Service.
GetObjects(u) ==
    /\ pc[u] = "get"
    /\ read' = [read EXCEPT ![u] = [o \in Objects |->
                  IF o = "configmap" THEN 0 ELSE version[o]]]
    /\ Goes(u, "get-map")
    /\ UNCHANGED <<juju, todo, kube, ev, want, drop, spent>>

\* client.get of the ConfigMap; 404 has _init_label_configmap called.
GetMap(u) ==
    /\ pc[u] = "get-map"
    /\ IF mapExists
         THEN /\ read' = [read EXCEPT ![u]["configmap"] = version["configmap"]]
              /\ drop' = [drop EXCEPT ![u] = Forgotten(u)]
              /\ Goes(u, "configmap")
         ELSE Goes(u, "create-map") /\ UNCHANGED <<read, drop>>
    /\ UNCHANGED <<juju, todo, kube, ev, want, spent>>

\* mutation: the call that makes the ConfigMap goes no further
CreateMapReturning(u) ==
    /\ pc[u] = "create-map"
    /\ ~mapExists /\ mapExists' = TRUE
    /\ version' = [version EXCEPT !["configmap"] = @ + 1]
    /\ drop' = [drop EXCEPT ![u] = {}]
    /\ Goes(u, "idle")
    /\ UNCHANGED <<juju, todo, keys, ev, want, read, spent>>

\* client.create of a ConfigMap that records no labels.  The object at hand has
\* no resourceVersion and is patched unconditionally.
CreateMap(u) ==
    /\ pc[u] = "create-map"
    /\ ~mapExists /\ mapExists' = TRUE
    /\ version' = [version EXCEPT !["configmap"] = @ + 1]
    /\ drop' = [drop EXCEPT ![u] = {}]
    /\ Goes(u, "configmap")
    /\ UNCHANGED <<juju, todo, keys, ev, want, read, spent>>

\* client.patch of object o: the ConfigMap is given the wanted keys, the
\* other two have the wanted keys added and the forgotten ones deleted.
Patch(u, o, next) ==
    /\ pc[u] = o
    /\ o = "configmap" => mapExists
    /\ read[u][o] \in {0, version[o]}
    /\ keys' = [keys EXCEPT ![o] = IF o = "configmap" THEN want[u]
                                   ELSE (@ \cup want[u]) \ drop[u]]
    /\ version' = [version EXCEPT ![o] = IF keys'[o] = keys[o] THEN @ ELSE @ + 1]
    /\ Goes(u, next)
    /\ UNCHANGED <<juju, todo, mapExists, ev, want, read, drop, spent>>

PatchConfigMap(u)   == Patch(u, "configmap", "statefulset")
PatchStatefulSet(u) == Patch(u, "statefulset", "service")
PatchService(u)     == Patch(u, "service", IF ev[u] = "broken" THEN "delete" ELSE "idle")

\* _on_mesh_broken deletes the ConfigMap.
DeleteMap(u) ==
    /\ pc[u] = "delete"
    /\ mapExists
    /\ mapExists' = FALSE
    /\ keys' = [keys EXCEPT !["configmap"] = {}]
    /\ Goes(u, "idle")
    /\ UNCHANGED <<juju, todo, version, ev, want, read, drop, spent>>

\* A conflict, an object that is gone, or one that another unit has created
\* meanwhile: ApiError leaves the hook.
Conflict(u) ==
    /\ \/ pc[u] \in {"configmap", "statefulset", "service"}
            /\ read[u][pc[u]] \notin {0, version[pc[u]]}
       \/ pc[u] \in {"configmap", "delete"} /\ ~mapExists
       \/ pc[u] = "create-map" /\ mapExists
    /\ Goes(u, "error")
    /\ UNCHANGED <<juju, todo, kube, ev, want, read, drop, spent>>

-----------------------------------------------------------------------------
Spend(k) == spent[k] < Limit[k] /\ spent' = [spent EXCEPT ![k] = @ + 1]

\* Any call may fail, or the pod be killed, before it has had its effect.
HookFails(u) ==
    /\ Spend("fault")
    /\ pc[u] \notin {"idle", "error"}
    /\ Goes(u, "error")
    /\ UNCHANGED <<juju, todo, kube, ev, want, read, drop>>

Relate(ls) ==
    /\ Spend("relate")
    /\ relation = "none"
    /\ relation' = "alive" /\ announced' = ls
    /\ todo' = [u \in Units |-> {"changed"}]
    /\ UNCHANGED <<leader, seen, kube, call>>

Announce(ls) ==
    /\ Spend("announce")
    /\ relation = "alive" /\ announced # ls
    /\ announced' = ls
    /\ todo' = [u \in Units |-> todo[u] \cup {"changed"}]
    /\ UNCHANGED <<leader, relation, seen, kube, call>>

\* Units that have not come to see the relation never hear of it.
Break ==
    /\ Spend("break")
    /\ relation = "alive"
    /\ relation' = "dying"
    /\ todo' = [u \in Units |-> IF u \in seen THEN {"broken"} ELSE {}]
    /\ UNCHANGED <<leader, announced, seen, kube, call>>

Gone ==
    /\ relation = "dying"
    /\ seen = {} /\ \A u \in Units : todo[u] = {} /\ pc[u] = "idle"
    /\ relation' = "none" /\ announced' = {}
    /\ UNCHANGED <<leader, todo, seen, kube, call, spent>>

LeaderMoves(u) ==
    /\ Spend("leader")
    /\ leader # u /\ leader' = u
    /\ UNCHANGED <<relation, announced, todo, seen, kube, call>>

Init ==
    /\ leader \in Units
    /\ relation = "none" /\ announced = {} /\ seen = {}
    /\ todo = [u \in Units |-> {}]
    /\ mapExists = FALSE
    /\ keys = [o \in Objects |-> IF o = "configmap" THEN {} ELSE Foreign]
    /\ version = [o \in Objects |-> 1]
    /\ pc = [u \in Units |-> "idle"]
    /\ ev = [u \in Units |-> "changed"]
    /\ want = [u \in Units |-> {}]
    /\ read = [u \in Units |-> [o \in Objects |-> 0]]
    /\ drop = [u \in Units |-> {}]
    /\ spent = [k \in EnvSteps |-> 0]

HookStep(u) ==
    \/ \E e \in {"changed", "broken"} : Handle(u, e)
    \/ GetObjects(u)
    \/ GetMap(u)
    \/ CreateMap(u)
    \/ PatchConfigMap(u)
    \/ PatchStatefulSet(u)
    \/ PatchService(u)
    \/ DeleteMap(u)
    \/ Conflict(u)

Next ==
    \/ \E u \in Units : HookStep(u) \/ HookFails(u) \/ LeaderMoves(u)
    \/ \E ls \in SUBSET Labels : Relate(ls) \/ Announce(ls)
    \/ Break
    \/ Gone

Spec     == Init /\ [][Next]_vars
\* Juju delivers what it has queued, and retries a failed hook.
FairSpec == Spec /\ WF_vars(Gone) /\ \A u \in Units : WF_vars(HookStep(u))

-----------------------------------------------------------------------------
Workload == {"statefulset", "service"}

TypeOK ==
    /\ leader \in Units /\ relation \in {"none", "alive", "dying"}
    /\ announced \subseteq Labels /\ seen \subseteq Units
    /\ todo \in [Units -> SUBSET {"changed", "broken"}]
    /\ mapExists \in BOOLEAN
    /\ keys \in [Objects -> SUBSET (Labels \cup Foreign)]
    /\ keys["configmap"] \subseteq Labels
    /\ version \in [Objects -> Nat]
    /\ pc \in [Units -> Steps] /\ ev \in [Units -> {"changed", "broken"}]
    /\ want \in [Units -> SUBSET Labels]
    /\ read \in [Units -> [Objects -> Nat]]
    /\ drop \in [Units -> SUBSET Labels]
    /\ spent \in [EnvSteps -> Nat]

Quiet == \A u \in Units : pc[u] = "idle" /\ todo[u] = {}

\* "Any labels that were previously created by this method but omitted in
\* `labels` now will be removed from the Kubernetes objects" (docstring of
\* reconcile_charm_labels): once every hook has run, the StatefulSet and the
\* Service carry the labels the beacon asks for and no other managed ones.
QuietLabels ==
    Quiet => \A o \in Workload :
        keys[o] \cap Labels = IF relation = "alive" THEN announced ELSE {}

\* "takes a little care to avoid removing labels added by other means": no
\* hook, interrupted or not, takes away a label that somebody else has set.
ForeignKept == \A o \in Workload : Foreign \subseteq keys[o]

\* Whatever the units' hooks do to each other, conflicts, failures and leader
\* changes included, the labels a lasting relation asks for end up on both
\* objects: relation_changed runs, and is retried, on every unit.
LabelsApplied ==
    \A ls \in SUBSET Labels :
        <>[](relation = "alive" /\ announced = ls)
            => <>[](\A o \in Workload : ls \subseteq keys[o])
=============================================================================
