---------------------------- MODULE LogForwarder ----------------------------
(***************************************************************************)
(* LogForwarder of loki_push_api.py: each unit of the charm forwards the   *)
(* logs of its container to the Loki units related over "logging", by      *)
(* enabling and disabling log targets of the Pebble plan.                  *)
(***************************************************************************)
EXTENDS Naturals, FiniteSets

CONSTANTS
    Units,      \* units of this charm
    Lokis,      \* remote units that may offer a Loki endpoint
    Relations,  \* relations of the "logging" endpoint
    RelationOf, \* RelationOf[x]: the relation in which Loki unit x takes part
    Urls, NoUrl, Removed, Unset,
    NoEvent, NoLeader,
    Limit       \* how often the environment takes each of its steps

EnvSteps == {"join", "publish", "depart", "trouble", "leader"}

LokiEvent  == [kind : {"joined", "changed", "departed"}, loki : Lokis]
PebbleIsReady == [kind |-> "pebble-ready"]
Event      == LokiEvent \cup {PebbleIsReady}

ASSUME ConstantsAssumption ==
    /\ RelationOf \in [Lokis -> Relations]
    /\ {NoUrl, Removed, Unset} \cap Urls = {}
    /\ Cardinality({NoUrl, Removed, Unset}) = 3
    /\ NoEvent \notin Event
    /\ Limit \in [EnvSteps -> Nat]

About(k, x) == [kind |-> k, loki |-> x]

VARIABLES
    leader,     \* the leader, or NoLeader if it is none of Units
    offered,    \* offered[x]: the "endpoint" that Loki unit x has published
    members,    \* Loki units taking part in their relation
    view,       \* view[u]: the Loki units that u's hooks see (relation.units)
    connected,  \* connected[u]: Pebble answers
    target,     \* target[u][x]: location of log target x in u's Pebble plan
    published,  \* relations whose data bag holds the charm's alert rules
    todo, failed, \* events queued for u, and the one to be retried
    spent

vars == <<leader, offered, members, view, connected, target, published, todo,
          failed, spent>>

-----------------------------------------------------------------------------
\* mutation: units without an endpoint are not told apart
FetchEndpointsUnchecked(vis, r) == {x \in vis : RelationOf[x] = r}

\* _fetch_endpoints: one unit without an "endpoint" key (or no unit at all)
\* makes its whole relation not ready.
FetchEndpoints(vis, r) ==
    LET units == {x \in vis : RelationOf[x] = r}
    IN  IF \E x \in units : offered[x] = NoUrl THEN {} ELSE units

\* _retrieve_endpoints_from_relation, for the Loki units in vis.
Endpoints(vis) == UNION {FetchEndpoints(vis, r) : r \in Relations}

\* mutation: targets that went away stay enabled
UpdatedWithoutDisabling(t, active) ==
    [x \in Lokis |-> IF x \in active THEN offered[x] ELSE t[x]]

\* _update_endpoints: disable the enabled targets that are not active, then
\* enable the active ones.
Updated(t, active) ==
    [x \in Lokis |-> IF x \in active THEN offered[x]
                     ELSE IF t[x] \in Urls THEN Removed ELSE t[x]]

\* mutation: a container that comes up later is not brought up to date
ReactsToRelations(e) == e.kind # "pebble-ready"

\* mutation: changes of the relation data are not observed
ReactsToMembership(e) == e.kind # "changed"

\* relation_broken is observed too: it comes after the last "departed" and
\* finds the endpoints as that one left them.
ReactsTo(e) == e.kind \in {"joined", "changed", "departed", "pebble-ready"}

\* A hook brackets the event with what the unit sees from then on.
Seen(u, e) == CASE e.kind = "joined" -> view[u] \cup {e.loki}
                [] e.kind = "departed" -> view[u] \ {e.loki}
                [] OTHER -> view[u]

Deliverable(u, e) ==
    \/ failed[u] = e
    \/ /\ failed[u] = NoEvent
       /\ e \in todo[u]
       /\ e.kind = "changed" => About("joined", e.loki) \notin todo[u]

\* _update_logging and _on_pebble_ready.  With no endpoint at all both return
\* before they touch the plan; alert rules go out only after a plan update.
Handle(u, e) ==
    /\ Deliverable(u, e)
    /\ view' = [view EXCEPT ![u] = Seen(u, e)]
    /\ LET active == Endpoints(Seen(u, e))
           acts   == ReactsTo(e) /\ active # {}
       IN  /\ target' = [target EXCEPT ![u] =
                           IF acts /\ connected[u] THEN Updated(@, active) ELSE @]
           /\ published' = published \cup
                IF acts /\ e.kind # "pebble-ready" /\ leader = u
                  THEN {RelationOf[e.loki]} ELSE {}
    /\ todo' = [todo EXCEPT ![u] = @ \ {e}]
    /\ failed' = [failed EXCEPT ![u] = NoEvent]
    /\ UNCHANGED <<leader, offered, members, connected, spent>>

-----------------------------------------------------------------------------
Spend(k) == spent[k] < Limit[k] /\ spent' = [spent EXCEPT ![k] = @ + 1]

\* Pebble fails after some of the inactive targets have been disabled.
HandleFails(u, e) ==
    /\ Spend("trouble")
    /\ Deliverable(u, e) /\ ReactsTo(e) /\ connected[u]
    /\ view' = [view EXCEPT ![u] = Seen(u, e)]
    /\ LET active == Endpoints(Seen(u, e))
       IN  /\ active # {}
           /\ \E done \in SUBSET {x \in Lokis \ active : target[u][x] \in Urls} :
                target' = [target EXCEPT ![u] =
                             [x \in Lokis |-> IF x \in done THEN Removed ELSE @[x]]]
    /\ todo' = [todo EXCEPT ![u] = @ \ {e}]
    /\ failed' = [failed EXCEPT ![u] = e]
    /\ UNCHANGED <<leader, offered, members, connected, published>>

Join(x) ==
    /\ Spend("join")
    /\ x \notin members
    /\ \A u \in Units : x \notin view[u]
    /\ members' = members \cup {x}
    /\ todo' = [u \in Units |-> todo[u] \cup {About("joined", x), About("changed", x)}]
    /\ UNCHANGED <<leader, offered, view, connected, target, published, failed>>

Publish(x, url) ==
    /\ Spend("publish")
    /\ x \in members /\ offered[x] # url
    /\ offered' = [offered EXCEPT ![x] = url]
    /\ todo' = [u \in Units |-> todo[u] \cup {About("changed", x)}]
    /\ UNCHANGED <<leader, members, view, connected, target, published, failed>>

\* A Loki unit goes; units that have not heard of it never will.  With its
\* last unit the relation goes, and its data bag.
Depart(x) ==
    /\ Spend("depart")
    /\ x \in members
    /\ members' = members \ {x}
    /\ offered' = [offered EXCEPT ![x] = NoUrl]
    /\ todo' = [u \in Units |->
                  (todo[u] \ {About("joined", x), About("changed", x)})
                    \cup (IF x \in view[u] THEN {About("departed", x)} ELSE {})]
    /\ published' = {r \in published : \E y \in members \ {x} : RelationOf[y] = r}
    /\ UNCHANGED <<leader, view, connected, target, failed>>

\* The workload container restarts and loses the layers added to its plan.
Restart(u) ==
    /\ Spend("trouble")
    /\ connected' = [connected EXCEPT ![u] = FALSE]
    /\ target' = [target EXCEPT ![u] = [x \in Lokis |-> Unset]]
    /\ UNCHANGED <<leader, offered, members, view, published, todo, failed>>

PebbleUp(u) ==
    /\ ~connected[u]
    /\ connected' = [connected EXCEPT ![u] = TRUE]
    /\ todo' = [todo EXCEPT ![u] = @ \cup {PebbleIsReady}]
    /\ UNCHANGED <<leader, offered, members, view, target, published, failed, spent>>

LeaderMoves(u) ==
    /\ Spend("leader")
    /\ leader # u
    /\ leader' = u
    /\ UNCHANGED <<offered, members, view, connected, target, published, todo, failed>>

Init ==
    /\ leader \in Units \cup {NoLeader}
    /\ offered = [x \in Lokis |-> NoUrl]
    /\ members = {} /\ published = {}
    /\ view = [u \in Units |-> {}]
    /\ connected = [u \in Units |-> FALSE]
    /\ target = [u \in Units |-> [x \in Lokis |-> Unset]]
    /\ todo = [u \in Units |-> {}]
    /\ failed = [u \in Units |-> NoEvent]
    /\ spent = [k \in EnvSteps |-> 0]

HookStep(u) == \E e \in Event : Handle(u, e)

Next ==
    \/ \E u \in Units : \/ HookStep(u)
                        \/ \E e \in Event : HandleFails(u, e)
                        \/ Restart(u) \/ PebbleUp(u)
    \/ \E u \in Units \cup {NoLeader} : LeaderMoves(u)
    \/ \E x \in Lokis : Join(x) \/ Depart(x) \/ \E url \in Urls : Publish(x, url)

Spec     == Init /\ [][Next]_vars
FairSpec == Spec /\ \A u \in Units : WF_vars(HookStep(u)) /\ WF_vars(PebbleUp(u))

-----------------------------------------------------------------------------
(* Properties *)

TypeOK ==
    /\ leader \in Units \cup {NoLeader}
    /\ offered \in [Lokis -> Urls \cup {NoUrl}]
    /\ members \subseteq Lokis
    /\ view \in [Units -> SUBSET Lokis]
    /\ connected \in [Units -> BOOLEAN]
    /\ target \in [Units -> [Lokis -> Urls \cup {Removed, Unset}]]
    /\ published \subseteq Relations
    /\ todo \in [Units -> SUBSET Event]
    /\ failed \in [Units -> Event \cup {NoEvent}]
    /\ spent \in [EnvSteps -> Nat]

Quiet(u)      == todo[u] = {} /\ failed[u] = NoEvent /\ connected[u]
Enabled(u)    == {x \in Lokis : target[u][x] \in Urls}

\* A unit with nothing left to handle forwards to every Loki unit of the
\* relations that are ready, at its current location, and to no other one,
\* provided that there is one (_update_endpoints).
ForwardingCurrent ==
    \A u \in Units : Quiet(u) /\ Endpoints(members) # {} =>
        /\ Enabled(u) = Endpoints(members)
        /\ \A x \in Enabled(u) : target[u][x] = offered[x]

\* Logs reach Loki: when the endpoints stay as they are, every unit comes to
\* forward to all those of ready relations, whatever restarts and failures
\* came before.
EventuallyForwards ==
    \A u \in Units, x \in Lokis :
        <>[](x \in Endpoints(members)) => <>[](target[u][x] = offered[x])

\* "Update the log forwarding to match the active Loki endpoints."
\* (loki_push_api.py:2582), the last one having left included.
ForwardingMatchesEndpoints ==
    \A u \in Units : Quiet(u) => Enabled(u) = Endpoints(members)

\* With leadership unmoved, a relation that is ready has been given the
\* charm's alert rules once the leader has nothing left to handle.
AlertRulesSent ==
    spent["leader"] = 0 /\ leader \in Units /\ Quiet(leader) =>
        \A x \in Endpoints(members) : RelationOf[x] \in published
=============================================================================
