-------------------------- MODULE GrafanaDashboards --------------------------
(***************************************************************************)
(* The "grafana-dashboard" relations of grafana_dashboard.py: the units of *)
(* an application with a GrafanaDashboardProvider, as this charm is, and   *)
(* those of Grafana with a GrafanaDashboardConsumer.  Templates wait in    *)
(* each provider unit's StoredState, the leader publishes its own; the     *)
(* Grafana leader renders them (DashboardRendering) into the data of the   *)
(* peer relation, from which every Grafana unit takes what it shows.       *)
(***************************************************************************)
EXTENDS Naturals

CONSTANTS
    Providers, Grafanas, \* units of the two applications
    Relations, \* relations between them; an id is used once
    Contents,  \* dashboards
    Corrupt, NotJson,    \* those that do not decompress, and do not parse
    FirstLeads, \* the two leading units at the start
    None,
    MaySpend   \* how often the environment takes each of its steps

EnvSteps == {"relate", "break", "upgrade", "program", "leader", "grafana", "all"}

VARIABLES
    leads,    \* the two leading units
    disk,     \* disk[u]: the dashboard on the disk of provider unit u
    stored,   \* stored[u]: the templates in its StoredState
    related,  \* relations that exist
    board,    \* board[r]: the templates published in r
    errors,   \* errors[r]: the templates that Grafana cannot use
    told,     \* told[u]: those that provider unit u's charm knows of
    peer,     \* peer[r]: rendered dashboards of r in the peer data
    shown,    \* shown[g]: the dashboards that Grafana unit g has loaded
    todo,     \* todo[u]: events queued for u
    used

provider == <<disk, stored, board, told>>
consumer == <<errors, peer, shown>>
vars     == <<leads, provider, related, consumer, todo, used>>

Units    == Providers \cup Grafanas
Kinds    == {"created", "changed", "scan", "peer", "broken"}
Event    == Kinds \X (Relations \cup {None})
Leads(u) == u \in leads
Template == [kind : {"file", "prog"}, content : Contents]

\* Each application has one unit that leads; None is neither a dashboard nor a
\* set of templates.
ConstantsOK ==
    /\ Providers \cap Grafanas = {}
    /\ \E p \in Providers, g \in Grafanas : FirstLeads = {p, g}
    /\ None \notin Contents /\ \A ts \in SUBSET Template : ts # None

\* Templates that the provider publishes; each is published with a new uuid,
\* so that Grafana sees a change even when there is none.
Upset(u, templates, also) ==
    IF ~Leads(u) THEN UNCHANGED <<board, todo>>
    ELSE /\ board' = [r \in Relations |-> IF r \in related THEN templates ELSE board[r]]
         /\ todo' = [v \in Units |-> IF v \in Grafanas
                       THEN todo[v] \cup {<<"changed", r>> : r \in related}
                       ELSE todo[v] \ IF v = u THEN also ELSE {}]

Programmed(u) == {t \in stored[u] : t.kind = "prog"}
OnDisk(u)     == {[kind |-> "file", content |-> c] : c \in {disk[u]} \ {None}}

\* mutation: what is on the disk reaches the relations at the next occasion
ScanQuietly(u, e) ==
    /\ stored' = [stored EXCEPT ![u] = Programmed(u) \cup OnDisk(u)]
    /\ todo' = [todo EXCEPT ![u] = @ \ {e}] /\ UNCHANGED board

\* _update_all_dashboards_from_dir
Scan(u, e) ==
    LET templates == Programmed(u) \cup OnDisk(u)
    IN  /\ stored' = [stored EXCEPT ![u] = templates]
        /\ IF Leads(u) THEN Upset(u, templates, {e})
           ELSE todo' = [todo EXCEPT ![u] = @ \ {e}] /\ UNCHANGED board

\* A hook of provider unit u: relation_created scans and publishes as leader,
\* leader_elected, upgrade_charm and config_changed ("scan") do so always,
\* relation_changed tells the leader's charm what Grafana has reported.
Provide(u, e) ==
    /\ u \in Providers /\ e \in todo[u]
    /\ IF e[1] = "scan" \/ (e[1] = "created" /\ Leads(u)) THEN Scan(u, e)
       ELSE todo' = [todo EXCEPT ![u] = @ \ {e}] /\ UNCHANGED <<stored, board>>
    /\ told' = [told EXCEPT ![u] =
                  IF e[1] = "changed" /\ Leads(u) THEN @ \cup errors[e[2]] ELSE @]
    /\ UNCHANGED <<leads, disk, related, consumer, used>>

\* add_dashboard and remove_non_builtin_dashboards, called in a hook of u.
AddDashboard(u, c) ==
    LET templates == stored[u] \cup {[kind |-> "prog", content |-> c]}
    IN  stored' = [stored EXCEPT ![u] = templates] /\ Upset(u, templates, {})
RemoveNonBuiltin(u) ==
    LET templates == stored[u] \ Programmed(u)
    IN  stored' = [stored EXCEPT ![u] = templates] /\ Upset(u, templates, {})

-----------------------------------------------------------------------------
InvalidIn(ts) == {t \in ts : t.content \in Corrupt}
RenderedOf(ts) == {t \in ts : t.content \notin NotJson}
\* mutation: a relation without dashboards keeps those of the others back
LoadedIfAll(p) ==
    {q \in Relations \X Template : (\A r \in Relations : p[r] # None) /\ q[2] \in p[q[1]]}

\* GrafanaDashboardConsumer.dashboards, of all relations in the peer data.
Loaded(p) == {q \in Relations \X Template : p[q[1]] # None /\ q[2] \in p[q[1]]}

\* mutation: errors are reported where dashboards are dropped for them
RenderReportingDrops(r) ==
    IF board[r] = None THEN [dashboards |-> peer[r], errors |-> errors[r]]
    ELSE IF InvalidIn(board[r]) # {} THEN [dashboards |-> None,
            errors |-> IF peer[r] = None THEN errors[r] ELSE InvalidIn(board[r])]
    ELSE [dashboards |-> RenderedOf(board[r]), errors |-> errors[r]]

\* _render_dashboards_and_signal_changed: one invalid dashboard drops them
\* all; one that is no JSON is passed over; errors once written stay.
Render(r) ==
    IF board[r] = None THEN [dashboards |-> peer[r], errors |-> errors[r]]
    ELSE IF InvalidIn(board[r]) # {} THEN [dashboards |-> None, errors |-> InvalidIn(board[r])]
    ELSE [dashboards |-> RenderedOf(board[r]), errors |-> errors[r]]

\* A hook of Grafana unit g; the leader writes the peer data and reloads, the
\* others reload when they see that.
Consume(g, e) ==
    LET r == e[2]
        result == IF e[1] = "changed" THEN Render(r)
                  ELSE [dashboards |-> None, errors |-> errors[r]]
        writes == Leads(g) /\ e[1] # "peer"
        drops  == writes /\ e[1] = "changed" /\ board[r] # None /\ InvalidIn(board[r]) # {}
    IN  /\ g \in Grafanas /\ e \in todo[g]
        /\ peer'   = IF writes THEN [peer EXCEPT ![r] = result.dashboards] ELSE peer
        /\ errors' = IF writes THEN [errors EXCEPT ![r] = result.errors] ELSE errors
        /\ shown'  = IF peer' # peer \/ drops \/ (e[1] = "peer" /\ ~Leads(g))
                       THEN [shown EXCEPT ![g] = Loaded(peer')] ELSE shown
        /\ todo'   = [u \in Units |->
             CASE u = g -> todo[u] \ {e}
               [] u \in Grafanas \ {g} -> todo[u] \cup (IF peer' # peer THEN {<<"peer", None>>} ELSE {})
               [] OTHER -> todo[u] \cup (IF errors' # errors THEN {<<"changed", r>>} ELSE {})]
        /\ UNCHANGED <<leads, provider, related, used>>

-----------------------------------------------------------------------------
Spend(k) ==
    /\ used[k] < MaySpend[k] /\ used["all"] < MaySpend["all"]
    /\ used' = [used EXCEPT ![k] = @ + 1, !["all"] = @ + 1]

Relate(r) ==
    /\ Spend("relate")
    /\ r \notin related /\ peer[r] = None
    /\ \A g \in Grafanas : <<"broken", r>> \notin todo[g]
    /\ related' = related \cup {r}
    /\ todo' = [u \in Units |-> todo[u] \cup IF u \in Providers THEN {<<"created", r>>} ELSE {}]
    /\ UNCHANGED <<leads, provider, consumer>>

Break(r) ==
    /\ Spend("break")
    /\ r \in related
    /\ related' = related \ {r}
    /\ board' = [board EXCEPT ![r] = None] /\ errors' = [errors EXCEPT ![r] = {}]
    /\ todo' = [u \in Units |-> (todo[u] \ {<<"created", r>>, <<"changed", r>>})
                                  \cup IF u \in Grafanas THEN {<<"broken", r>>} ELSE {}]
    /\ UNCHANGED <<leads, disk, stored, told, peer, shown>>

Upgrade(u, c) ==
    /\ Spend("upgrade")
    /\ u \in Providers /\ disk[u] # c
    /\ disk' = [disk EXCEPT ![u] = c]
    /\ todo' = [todo EXCEPT ![u] = @ \cup {<<"scan", None>>}]
    /\ UNCHANGED <<leads, stored, related, board, told, consumer>>

Program(u) ==
    /\ Spend("program")
    /\ u \in Providers
    /\ RemoveNonBuiltin(u) \/ \E c \in Contents : AddDashboard(u, c)
    /\ UNCHANGED <<leads, disk, related, told, consumer>>

LeaderMoves(u) ==
    /\ Spend(IF u \in Grafanas THEN "grafana" ELSE "leader")
    /\ ~Leads(u)
    /\ leads' = {u} \cup {v \in leads : (v \in Grafanas) # (u \in Grafanas)}
    /\ todo' = [todo EXCEPT ![u] = @ \cup IF u \in Providers THEN {<<"scan", None>>} ELSE {}]
    /\ UNCHANGED <<provider, related, consumer>>

Init ==
    /\ leads = FirstLeads
    /\ disk \in [Providers -> {None}]
    /\ stored = [u \in Providers |-> {}] /\ told = [u \in Providers |-> {}]
    /\ related = {}
    /\ board = [r \in Relations |-> None] /\ errors = [r \in Relations |-> {}]
    /\ peer = [r \in Relations |-> None] /\ shown = [g \in Grafanas |-> {}]
    /\ todo = [u \in Units |-> {}]
    /\ used = [k \in EnvSteps |-> 0]

Next ==
    \/ \E u \in Units : \/ \E e \in Event : Provide(u, e) \/ Consume(u, e)
                        \/ LeaderMoves(u) \/ Program(u)
                        \/ \E c \in Contents : Upgrade(u, c)
    \/ \E r \in Relations : Relate(r) \/ Break(r)

Spec == Init /\ [][Next]_vars

-----------------------------------------------------------------------------
Quiet(us) == \A u \in us : todo[u] = {}
ProviderLead == CHOOSE u \in Providers : Leads(u)

\* With every event handled, each relation holds the templates of the unit
\* that leads: those its charm has added and the files of its own revision,
\* however leadership, upgrades and new relations came in each other's way.
PublishedCurrent ==
    Quiet(Providers) => \A r \in related :
        board[r] = OnDisk(ProviderLead) \cup Programmed(ProviderLead)

\* Every Grafana unit, not only the leader, then shows the dashboards of each
\* relation, or none of one with an invalid dashboard, and none of a relation
\* that is gone; Grafana's leader has to be the same throughout.
GrafanaCurrent ==
    Quiet(Units) /\ used["grafana"] = 0 => \A g \in Grafanas :
        shown[g] = {q \in related \X Template :
                      InvalidIn(board[q[1]]) = {} /\ q[2] \in RenderedOf(board[q[1]])}

\* The leading provider's charm has been told of every template that Grafana
\* refuses ("to signal back to the parent charm").
ErrorsReachProvider ==
    Quiet(Units) /\ used["grafana"] = 0 /\ used["leader"] = 0 =>
        \A r \in related : InvalidIn(board[r]) \subseteq told[ProviderLead]
=============================================================================
