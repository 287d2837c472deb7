----------------------------- MODULE MeshPolicies -----------------------------
(***************************************************************************)
(* Access policies in service_mesh.py: ServiceMeshConsumer turns the       *)
(* policies of the charm (here: who relates to metrics-endpoint may reach  *)
(* the pods) into the "policies" of the mesh relation, ServiceMeshProvider *)
(* hands them to the beacon, and a PolicyResourceManager reconciles the    *)
(* AuthorizationPolicy objects of the cluster with them.                   *)
(***************************************************************************)
EXTENDS Naturals, FiniteSets

CONSTANTS
    Units, FirstLeader,
    Policies,  \* [relation, type, service, endpoints]
    Relations, \* relations of the charm that policies may be about
    EndpointOf, AppOf, \* the name and the remote application of each
    Model,     \* the charm's model
    Remote,    \* Remote[a]: application and model that a cross-model a really is
    This,      \* this application
    MaySpend   \* how often the environment takes each of its steps

Apps     == {AppOf[r] : r \in Relations}
EnvSteps == {"relate", "break", "cmr", "withdraw", "mesh", "fault", "leader"}
None     == "none"

VARIABLES
    leader,
    related,   \* policy relations that exist
    view,      \* view[u]: those that unit u's hooks see
    cmr,       \* applications whose cross-model data is there
    mesh,      \* the mesh relation exists
    published, \* the policies in its data
    todo,      \* todo[u]: events queued for unit u
    due,       \* the beacon has yet to look at what has changed
    crd,       \* the cluster knows AuthorizationPolicy
    cluster,   \* AuthorizationPolicy objects of the beacon
    used

consumer == <<leader, related, view, cmr, mesh, published, todo>>
beacon   == <<due, crd, cluster>>
vars     == <<consumer, beacon, used>>

-----------------------------------------------------------------------------
(* build_mesh_policies *)

Source(a) == IF a \in cmr THEN Remote[a] ELSE [app |-> a, model |-> Model]

MeshPolicy(p, a) ==
    [source |-> Source(a), target |-> This, type |-> p.type, labels |-> None,
     service |-> IF p.type = "unit" THEN None ELSE p.service, endpoints |-> p.endpoints]

\* A policy holds for each relation of its endpoint.
Grants(rs) == {q \in Policies \X rs : q[1].relation = EndpointOf[q[2]]}

MeshPoliciesFor(rs) == {MeshPolicy(q[1], AppOf[q[2]]) : q \in Grants(rs)}

(* MeshPolicy's validators, and what the manager makes of a policy *)

Bad(m) == IF m.type = "app" THEN (m.target = None /\ m.service = None) \/ m.labels # None
          ELSE (m.target # None /\ m.labels # None) \/ m.service # None

\* A unit policy with hosts, methods or paths leaves None in the list.
Buildable(m) == m.type = "app" \/ \A e \in m.endpoints : e.layer = 4

\* Only unit policies select pods; the name holds a hash of the policy.
Resource(m) ==
    [name |-> m, principal |-> m.source,
     selects |-> IF m.type = "unit"
                   THEN <<"pods", IF m.labels # None THEN m.labels ELSE m.target>>
                   ELSE <<"service", IF m.service # None THEN m.service ELSE m.target>>,
     operations |-> m.endpoints]

-----------------------------------------------------------------------------
\* mutation: relation_broken of a policy's relation is not observed
ObservesCreated(e) == e[1] \in {"created", "cmr", "mesh"}

\* The events that lead to update_service_mesh.
Observes(e) == e[1] \in {"created", "broken", "cmr", "mesh"}

\* A hook of unit u: the leader publishes the policies for the relations it
\* sees and the cross-model data that is there.
Handle(u, e) ==
    /\ e \in todo[u]
    /\ todo' = [todo EXCEPT ![u] = @ \ {e}]
    /\ view' = [view EXCEPT ![u] = CASE e[1] = "created" -> @ \cup {e[2]}
                                     [] e[1] = "broken" -> @ \ {e[2]}
                                     [] OTHER -> @]
    /\ published' = IF leader = u /\ mesh /\ Observes(e)
                      THEN MeshPoliciesFor(view'[u]) ELSE published
    /\ due' = (due \/ published' # published)
    /\ UNCHANGED <<leader, related, cmr, mesh, crd, cluster, used>>

Reconciled(ms) == {Resource(m) : m \in ms}

\* A hook of the beacon: mesh_info, then reconcile.  Without policies it
\* deletes, which a missing CRD does not stop.
Reconcile ==
    /\ due
    /\ \A m \in published : ~Bad(m) /\ Buildable(m)
    /\ crd \/ published = {}
    /\ cluster' = Reconciled(published)
    /\ due' = FALSE
    /\ UNCHANGED <<consumer, crd, used>>

-----------------------------------------------------------------------------
Spend(k) ==
    /\ used[k] < MaySpend[k]
    /\ used' = [used EXCEPT ![k] = @ + 1]
Queue(e) == todo' = [u \in Units |-> todo[u] \cup {e}]

Relate(r) ==
    /\ Spend("relate")
    /\ r \notin related /\ \A u \in Units : r \notin view[u]
    /\ related' = related \cup {r}
    /\ Queue(<<"created", r>>)
    /\ UNCHANGED <<leader, view, cmr, mesh, published, beacon>>

\* Units that have not come to see the relation never hear of it.
Break(r) ==
    /\ Spend("break")
    /\ r \in related
    /\ related' = related \ {r}
    /\ todo' = [u \in Units |-> (todo[u] \ {<<"created", r>>})
                                  \cup IF r \in view[u] THEN {<<"broken", r>>} ELSE {}]
    /\ UNCHANGED <<leader, view, cmr, mesh, published, beacon>>

\* The leader of the remote application has run _send_cmr_data.
SendCmrData(a) ==
    /\ Spend("cmr")
    /\ a \notin cmr /\ a \in DOMAIN Remote
    /\ cmr' = cmr \cup {a}
    /\ Queue(<<"cmr", None>>)
    /\ UNCHANGED <<leader, related, view, mesh, published, beacon>>

\* The cross-model relation is removed; nothing observes that.
WithdrawCmr(a) ==
    /\ Spend("withdraw")
    /\ a \in cmr
    /\ cmr' = cmr \ {a}
    /\ UNCHANGED <<leader, related, view, mesh, published, todo, beacon>>

JoinMesh ==
    /\ Spend("mesh")
    /\ ~mesh /\ mesh' = TRUE
    /\ Queue(<<"mesh", None>>)
    /\ UNCHANGED <<leader, related, view, cmr, published, beacon>>

\* The data of the mesh relation goes with it.
LeaveMesh ==
    /\ Spend("mesh")
    /\ mesh /\ mesh' = FALSE
    /\ published' = {} /\ due' = TRUE
    /\ todo' = [u \in Units |-> todo[u] \ {<<"mesh", None>>}]
    /\ UNCHANGED <<leader, related, view, cmr, crd, cluster>>

LeaderMoves(u) ==
    /\ Spend("leader")
    /\ leader # u /\ leader' = u
    /\ UNCHANGED <<related, view, cmr, mesh, published, todo, beacon>>

InstallCrd == ~crd /\ crd' = TRUE /\ UNCHANGED <<consumer, due, cluster, used>>

\* The API server stops answering while reconcile applies and deletes: some
\* of it is done, and Juju retries the hook.
ReconcileFails ==
    /\ Spend("fault")
    /\ due /\ crd /\ published # {}
    /\ \E keep \in SUBSET cluster, new \in SUBSET Reconciled(published) :
         cluster' = keep \cup new
    /\ UNCHANGED <<consumer, due, crd>>

Init ==
    /\ leader = FirstLeader
    /\ related = {} /\ view = [u \in Units |-> {}] /\ cmr = {}
    /\ mesh = FALSE /\ published = {}
    /\ todo = [u \in Units |-> {}]
    /\ due = FALSE /\ crd = FALSE /\ cluster = {}
    /\ used = [k \in EnvSteps |-> 0]

Event == ({"created", "broken"} \X Relations) \cup {<<"cmr", None>>, <<"mesh", None>>}

Next ==
    \/ \E u \in Units : LeaderMoves(u) \/ \E e \in Event : Handle(u, e)
    \/ \E r \in Relations : Relate(r) \/ Break(r)
    \/ \E a \in Apps : SendCmrData(a) \/ WithdrawCmr(a)
    \/ JoinMesh \/ LeaveMesh \/ InstallCrd \/ Reconcile \/ ReconcileFails

Spec == Init /\ [][Next]_vars

-----------------------------------------------------------------------------
Quiet == ~due /\ todo[leader] = {}

\* With all handled, exactly the applications that are related may reach the
\* pods of this one, each under its own identity, in its own model if it is
\* another: "Gathers information from all relations of the charm and updates
\* the mesh appropriately".  The leader has to stay, as a new one publishes
\* nothing, and cross-model data once given.
AccessCurrent ==
    Quiet /\ used["leader"] = 0 /\ used["withdraw"] = 0 =>
        {<<o.principal, o.selects>> : o \in cluster} =
            IF ~mesh THEN {}
            ELSE {<<IF AppOf[q[2]] \in cmr THEN Remote[AppOf[q[2]]]
                    ELSE [app |-> AppOf[q[2]], model |-> Model],
                    IF q[1].type = "unit" THEN <<"pods", This>>
                    ELSE <<"service", IF q[1].service = None THEN This ELSE q[1].service>>>> :
                  q \in {x \in Policies \X related : x[1].relation = EndpointOf[x[2]]}}
=============================================================================
