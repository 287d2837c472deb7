-------------------------- MODULE MetricsAggregator --------------------------
(***************************************************************************)
(* MetricsEndpointAggregator (prometheus_scrape.py): scrape jobs and       *)
(* groups of alert rules for each application of scrape targets, kept up   *)
(* to date, event by event, in the data of every Prometheus relation and,  *)
(* for Prometheus relations to come, in the StoredState of the unit.  A    *)
(* list of them is kept by application here: what it holds under the name  *)
(* of the application, in order, each job or group being the set of its    *)
(* targets <<unit, host>> or labelled rules <<unit, rule>>.                *)
(***************************************************************************)
EXTENDS Naturals, Sequences

CONSTANTS
    Units,    \* units of the aggregator
    Targets,  \* units that are scraped
    AppOf,    \* AppOf[x]: the application of target x
    Proms,    \* Prometheus relations
    Hosts, Rules,
    None,     \* a target has not published its host, or rule
    MaySpend  \* how often the environment takes each of its steps

\* The aggregator has a unit, and what is missing is no value.
ConstantsOK == Units # {} /\ None \notin Hosts \cup Rules

Channels == {"jobs", "rules"}
EnvSteps == {"join", "offer", "depart", "prometheus", "unrelate", "leader", "all"}

VARIABLES
    channel,  \* jobs and rules share nothing: a behaviour is about either
    leader,
    present,  \* targets that are there
    offer,    \* offer[x]: what target x publishes
    proms,    \* Prometheus relations that exist
    view,     \* view[u]: targets that unit u's hooks see
    board,    \* board[p][a]: what relation p is given for application a
    stored,   \* stored[u][a]: what is in u's StoredState for it
    todo,     \* todo[u]: events queued for u
    used

targets == <<channel, present, offer>>
vars    == <<leader, targets, proms, view, board, stored, todo, used>>

Event == [kind : {"joined", "changed", "departed"}, about : Targets]
           \cup [kind : {"prometheus"}, about : Proms]
On(k, x) == [kind |-> k, about |-> x]
Values   == IF channel = "jobs" THEN Hosts ELSE Rules
Apps     == {AppOf[x] : x \in Targets}
Nothing  == [a \in Apps |-> <<>>]

\* What the units of application a, as seen in V, publish (_get_targets,
\* _get_alert_rules).
Items(V, a) == {<<x, offer[x]>> : x \in {y \in V : AppOf[y] = a /\ offer[y] # None}}

\* mutation: the updated job is added to the one there is
SetAppending(entries, items) == Append(entries, items)

\* mutation: a group of rules that is there already is left as it is
SetOnce(entries, items) ==
    IF channel = "jobs" \/ entries = <<>> THEN <<items>> ELSE entries

\* set_target_job_data replaces the application's job; set_alert_rule_data
\* adds to each of its groups.
Set(entries, items) ==
    IF channel = "jobs" \/ entries = <<>> THEN <<items>>
    ELSE [i \in DOMAIN entries |-> entries[i] \cup items]

\* remove_prometheus_jobs and remove_alert_rules: what is left of the first
\* entry replaces all.
Removed(entries, x) ==
    IF entries = <<>> THEN <<>>
    ELSE LET kept == {i \in entries[1] : i[1] # x}
         IN  IF kept = {} THEN <<>> ELSE <<kept>>

\* The leader gives each Prometheus relation p in the domain of lists the list
\* lists[p]; the one written last, to whichever relation, is remembered.
Rewrite(u, lists) ==
    LET P == DOMAIN lists
    IN  IF leader # u \/ P = {} THEN UNCHANGED <<board, stored>>
        ELSE /\ board' = [p \in Proms |-> IF p \in P THEN lists[p] ELSE board[p]]
             /\ \E p \in P : stored' = [stored EXCEPT ![u] = lists[p]]

Changed(u, x, V) ==
    LET a == AppOf[x]
    IN  Rewrite(u, [p \in IF Items(V, a) = {} THEN {} ELSE proms |->
                      [board[p] EXCEPT ![a] = Set(@, Items(V, a))]])

Departed(u, x) ==
    LET a == AppOf[x]
    IN  Rewrite(u, [p \in {q \in proms : board[q][a] # <<>>} |->
                      [board[p] EXCEPT ![a] = Removed(@, x)]])

\* A new Prometheus is given what StoredState holds and what the targets say.
SetPrometheusData(u, p, V) ==
    LET Fresh(a) == IF Items(V, a) = {} THEN <<>> ELSE <<Items(V, a)>>
    IN  /\ board' = IF leader = u
                      THEN [board EXCEPT ![p] = [a \in Apps |-> stored[u][a] \o Fresh(a)]]
                      ELSE board
        /\ UNCHANGED stored

Handle(u, e) ==
    /\ e \in todo[u]
    /\ e.kind = "changed" => On("joined", e.about) \notin todo[u]
    /\ todo' = [todo EXCEPT ![u] = @ \ {e}]
    /\ view' = [view EXCEPT ![u] = CASE e.kind = "joined" -> @ \cup {e.about}
                                     [] e.kind = "departed" -> @ \ {e.about}
                                     [] OTHER -> @]
    /\ CASE e.kind = "changed" -> Changed(u, e.about, view[u])
         [] e.kind = "departed" -> Departed(u, e.about)
         [] e.kind = "prometheus" -> SetPrometheusData(u, e.about, view[u])
         [] OTHER -> UNCHANGED <<board, stored>>
    /\ UNCHANGED <<leader, targets, proms, used>>

-----------------------------------------------------------------------------
Spend(k) ==
    /\ used[k] < MaySpend[k] /\ used["all"] < MaySpend["all"]
    /\ used' = [used EXCEPT ![k] = @ + 1, !["all"] = @ + 1]
Queue(es) == todo' = [u \in Units |-> todo[u] \cup es]

Join(x) ==
    /\ Spend("join")
    /\ x \notin present /\ \A u \in Units : x \notin view[u]
    /\ present' = present \cup {x}
    /\ Queue({On("joined", x), On("changed", x)})
    /\ UNCHANGED <<leader, channel, offer, proms, view, board, stored>>

Offer(x, v) ==
    /\ Spend("offer")
    /\ x \in present /\ offer[x] # v
    /\ offer' = [offer EXCEPT ![x] = v]
    /\ Queue({On("changed", x)})
    /\ UNCHANGED <<leader, channel, present, proms, view, board, stored>>

\* A unit that has not come to see target x never hears of it.
Depart(x) ==
    /\ Spend("depart")
    /\ x \in present
    /\ present' = present \ {x}
    /\ todo' = [u \in Units |->
                  (todo[u] \ {On("joined", x), On("changed", x)})
                    \cup (IF x \in view[u] THEN {On("departed", x)} ELSE {})]
    /\ UNCHANGED <<leader, channel, offer, proms, view, board, stored>>

Relate(p) ==
    /\ Spend("prometheus")
    /\ p \notin proms
    /\ proms' = proms \cup {p}
    /\ board' = [board EXCEPT ![p] = Nothing]
    /\ Queue({On("prometheus", p)})
    /\ UNCHANGED <<leader, targets, view, stored>>

\* Another unit of a Prometheus joins.
Scale(p) ==
    /\ Spend("prometheus")
    /\ p \in proms
    /\ Queue({On("prometheus", p)})
    /\ UNCHANGED <<leader, targets, proms, view, board, stored>>

Unrelate(p) ==
    /\ Spend("unrelate")
    /\ p \in proms
    /\ proms' = proms \ {p}
    /\ todo' = [u \in Units |-> todo[u] \ {On("prometheus", p)}]
    /\ board' = [board EXCEPT ![p] = Nothing]
    /\ UNCHANGED <<leader, targets, view, stored>>

LeaderMoves(u) ==
    /\ Spend("leader")
    /\ leader # u /\ leader' = u
    /\ UNCHANGED <<targets, proms, view, board, stored, todo>>

Init ==
    /\ leader = (CHOOSE u \in Units : TRUE) /\ channel \in Channels
    /\ present = {} /\ offer = [x \in Targets |-> None]
    /\ proms = {}
    /\ view = [u \in Units |-> {}]
    /\ board = [p \in Proms |-> Nothing]
    /\ stored = [u \in Units |-> Nothing]
    /\ todo = [u \in Units |-> {}]
    /\ used = [k \in EnvSteps |-> 0]

Next ==
    \/ \E u \in Units : LeaderMoves(u) \/ \E e \in Event : Handle(u, e)
    \/ \E x \in Targets : \/ Join(x) \/ Depart(x)
                          \/ \E v \in Values : Offer(x, v)
    \/ \E p \in Proms : Relate(p) \/ Scale(p) \/ Unrelate(p)

Spec == Init /\ [][Next]_vars

-----------------------------------------------------------------------------
Quiet == todo[leader] = {} /\ used["leader"] = 0 /\ used["unrelate"] = 0
Published(p, a) == UNION {board[p][a][i] : i \in DOMAIN board[p][a]}

\* "Any time a scrape target departs, any Prometheus scrape job associated
\* with that specific scrape target is removed", and any change is passed on:
\* as long as the leader stays, each Prometheus has been given exactly the
\* present targets at their current hosts, however many come later.  None may
\* go: StoredState is only ever cleaned along with the list of a relation, and
\* remembers a target that departs when no list has it any more.
TargetsCurrent ==
    Quiet /\ channel = "jobs" =>
        \A p \in proms, a \in Apps : Published(p, a) = Items(present, a)

\* Likewise each Prometheus has the current rules of all present units, and
\* rules of no other unit; a rule that was replaced stays with its unit.
RulesCurrent ==
    Quiet /\ channel = "rules" =>
        \A p \in proms, a \in Apps :
            /\ Items(present, a) \subseteq Published(p, a)
            /\ \A i \in Published(p, a) : i[1] \in present
=============================================================================
