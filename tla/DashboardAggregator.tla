------------------------- MODULE DashboardAggregator -------------------------
(***************************************************************************)
(* GrafanaDashboardAggregator (grafana_dashboard.py): units of an          *)
(* aggregator collect, from applications of reactive charms, dashboards    *)
(* under ids that stand for their content, and the leader passes on what   *)
(* its StoredState holds.  The file dashboards that it has for an          *)
(* application go with those of its units.                                 *)
(***************************************************************************)
EXTENDS DashboardRendering

CONSTANTS
    Units,    \* of the aggregator
    Targets,  \* units of the reactive applications
    AppOf,
    Dash,     \* Dash[c]: the dashboard of id c
    May,      \* May[a]: the ids of dashboards that application a may have
    Builtin,  \* Builtin[a]: those that the aggregator has on disk for it
    Grafanas, \* relations with Grafana
    MaySpend  \* how often the environment takes each of its steps

Apps     == {AppOf[x] : x \in Targets}
Bags     == Targets \cup Apps   \* relation data, of a unit or an application
EnvSteps == {"relate", "offer", "break", "grafana", "leader", "all"}
None     == "none"

VARIABLES
    leader,
    related,   \* applications that are related
    offer,     \* offer[b]: what is asked, in data bag b, to be loaded
    grafanas,  \* Grafana relations that exist
    templates, \* templates[u]: the ids in u's StoredState
    mappings,  \* mappings[u][a]: those that came with a's last change
    board,     \* board[g]: what has been passed on
    todo,      \* todo[u]: events queued for u
    used

stored == <<templates, mappings>>
vars   == <<leader, related, offer, grafanas, stored, board, todo, used>>

\* An application of an aggregator has a unit, and units are no applications.
ConstantsOK == Units # {} /\ Targets \cap Apps = {}

Of(b) == IF b \in Apps THEN b ELSE AppOf[b]

Events == ({"changed"} \X Bags) \cup ({"broken"} \X Apps) \cup ({"grafana"} \X Grafanas)

\* What a change of target x brings, from its data and its application's.
Asked(x)      == offer[x] \cup offer[AppOf[x]]
Dashboards(x) == Asked(x) \cup Builtin[AppOf[x]]
Crashes(x)    == \E c \in Asked(x) : Stripped(Dash[c]).crashed

Passed(u) == [g \in Grafanas |-> IF g \in grafanas /\ u = leader THEN templates'[u] ELSE board[g]]

\* mutation: Grafana is told when it asks
UpsetQuietly(u, x) ==
    /\ templates' = [templates EXCEPT ![u] = @ \cup Dashboards(x)]
    /\ mappings' = [mappings EXCEPT ![u][AppOf[x]] = Dashboards(x)]
    /\ UNCHANGED board

\* _upset_dashboards_on_event
Upset(u, x) ==
    /\ templates' = [templates EXCEPT ![u] = @ \cup Dashboards(x)]
    /\ mappings' = [mappings EXCEPT ![u][AppOf[x]] = Dashboards(x)]
    /\ board' = Passed(u)

\* mutation: the mapping is forgotten and the templates stay
ForgetMapping(u, a) ==
    /\ mappings' = [mappings EXCEPT ![u][a] = {}]
    /\ UNCHANGED <<templates, board>>

\* remove_dashboards; on any unit, but only the leader has mappings.
RemoveDashboards(u, a) ==
    /\ templates' = [templates EXCEPT ![u] = @ \ mappings[u][a]]
    /\ mappings' = [mappings EXCEPT ![u][a] = {}]
    /\ board' = Passed(u)

\* A hook of unit u.  Where it raises, it is tried for ever: IndexError while
\* stripping, KeyError for a template that went with another application, and
\* KeyError for a change of an application's data, which comes with no unit.
Handle(u, e) ==
    /\ e \in todo[u]
    /\ CASE e[1] = "changed" /\ u = leader ->
              /\ e[2] \in Targets /\ ~Crashes(e[2])
              /\ IF Dashboards(e[2]) = {} THEN UNCHANGED <<stored, board>> ELSE Upset(u, e[2])
         [] e[1] = "broken" /\ mappings[u][e[2]] # {} ->
              /\ mappings[u][e[2]] \subseteq templates[u]
              /\ RemoveDashboards(u, e[2])
         [] e[1] = "grafana" -> UNCHANGED stored /\ board' = Passed(u)
         [] OTHER -> UNCHANGED <<stored, board>>
    /\ todo' = [todo EXCEPT ![u] = @ \ {e}]
    /\ UNCHANGED <<leader, related, offer, grafanas, used>>

-----------------------------------------------------------------------------
Spend(k) ==
    /\ used[k] < MaySpend[k] /\ used["all"] < MaySpend["all"]
    /\ used' = [used EXCEPT ![k] = @ + 1, !["all"] = @ + 1]
Queue(es) == todo' = [u \in Units |-> todo[u] \cup es]

Relate(a) ==
    /\ Spend("relate")
    /\ a \notin related /\ \A u \in Units : <<"broken", a>> \notin todo[u]
    /\ related' = related \cup {a}
    /\ Queue({<<"changed", x>> : x \in {y \in Targets : AppOf[y] = a}})
    /\ UNCHANGED <<leader, offer, grafanas, stored, board>>

Offer(b, cs) ==
    /\ Spend("offer")
    /\ Of(b) \in related /\ offer[b] # cs
    /\ offer' = [offer EXCEPT ![b] = cs]
    /\ Queue({<<"changed", b>>})
    /\ UNCHANGED <<leader, related, grafanas, stored, board>>

Break(a) ==
    /\ Spend("break")
    /\ a \in related /\ related' = related \ {a}
    /\ offer' = [b \in Bags |-> IF Of(b) = a THEN {} ELSE offer[b]]
    /\ todo' = [u \in Units |-> {e \in todo[u] : e[1] = "changed" => Of(e[2]) # a}
                                  \cup {<<"broken", a>>}]
    /\ UNCHANGED <<leader, grafanas, stored, board>>

RelateGrafana(g) ==
    /\ Spend("grafana")
    /\ g \notin grafanas /\ grafanas' = grafanas \cup {g}
    /\ Queue({<<"grafana", g>>})
    /\ UNCHANGED <<leader, related, offer, stored, board>>

LeaderMoves(u) ==
    /\ Spend("leader")
    /\ leader # u /\ leader' = u
    /\ UNCHANGED <<related, offer, grafanas, stored, board, todo>>

Init ==
    /\ leader = CHOOSE u \in Units : TRUE
    /\ related = {} /\ offer = [b \in Bags |-> {}]
    /\ grafanas = {} /\ board = [g \in Grafanas |-> {}]
    /\ templates = [u \in Units |-> {}]
    /\ mappings = [u \in Units |-> [a \in Apps |-> {}]]
    /\ todo = [u \in Units |-> {}]
    /\ used = [k \in EnvSteps |-> 0]

Next ==
    \/ \E u \in Units : LeaderMoves(u) \/ \E e \in Events : Handle(u, e)
    \/ \E a \in Apps : Relate(a) \/ Break(a)
    \/ \E b \in Bags : \E cs \in SUBSET May[Of(b)] : Offer(b, cs)
    \/ \E g \in Grafanas : RelateGrafana(g)

Spec == Init /\ [][Next]_vars

-----------------------------------------------------------------------------
Quiet   == todo[leader] = {} /\ used["leader"] = 0
Own(c)  == {a \in Apps : c \in May[a] \cup Builtin[a]}
Alone(a) == \A x, y \in Targets : AppOf[x] = a /\ AppOf[y] = a => x = y

\* With its events handled, the leader has passed on every dashboard that a
\* related application has, to every Grafana; one that two applications have
\* goes with the first of them.
NothingLost ==
    Quiet => \A g \in grafanas, x \in Targets :
        AppOf[x] \in related => \A c \in Dashboards(x) : Own(c) = {AppOf[x]} => c \in board[g]

\* And none of an application that is gone ("Remove a dashboard if the
\* relation is broken"), provided it has one unit, which did not change what
\* it offers: a later change takes the place of what is to be removed.
NothingLeft ==
    Quiet => \A g \in grafanas : \A c \in board[g], a \in Apps :
        Own(c) = {a} /\ Alone(a) /\ used["offer"] <= 1 => a \in related
=============================================================================
