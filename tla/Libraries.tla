------------------------------ MODULE Libraries ------------------------------
(***************************************************************************)
(* The library modules that have no state in common, side by side: a       *)
(* behaviour is one of the library that the variable `library` names.      *)
(* What two modules call by the same name is one variable here, of which   *)
(* only the chosen module makes use; the variables of the others stay      *)
(* None.  "rendering" is no behaviour but a template, an initial state.    *)
(***************************************************************************)
EXTENDS DashboardRendering

CONSTANTS
    NoValue,  \* no dashboard, host or rule
    \* the constants of each module, as the fields of a record
    metrics, prom, boards, grafana, access, lokiPush, promtail, labels,
    Samples   \* templates to render

None == "none"

VARIABLES
    library, leaders, jobs, address, members, related, app, unit, report, told,
    todo, due, scraped, files, used, channel, leader, present, offer, proms,
    view, board, stored, leads, disk, errors, peer, shown, grafanas, templates,
    mappings, cmr, mesh, published, crd, cluster, url, endpoint, binaries,
    rules, event, seen, up, box, fetched, network, stuck, relation, announced,
    mapExists, keys, version, pc, ev, want, read, drop, spent, sample

ofMetrics    == <<leaders, jobs, address, members, app, unit, report, scraped>>
ofPrometheus == <<channel, present, proms>>
ofDashboards == <<peer, shown>>
ofGrafana    == <<grafanas, templates, mappings>>
ofAccess     == <<cmr, mesh, published, crd, cluster>>
ofLoki       == <<endpoint, rules, event>>
ofPromtail   == <<up, box, fetched, network, stuck>>
ofLabels     == <<relation, announced, mapExists, keys, version, pc, ev, want,
                 read, drop, spent>>

-----------------------------------------------------------------------------
Metrics == INSTANCE MetricsEndpoint WITH
    Relations <- metrics.Relations, EndpointOf <- metrics.EndpointOf,
    Units <- metrics.Units, FirstLeaders <- metrics.FirstLeaders,
    Exporters <- metrics.Exporters, Addresses <- metrics.Addresses,
    IpAddresses <- metrics.IpAddresses, JobLists <- metrics.JobLists,
    Lookaside <- metrics.Lookaside, RuleGroups <- metrics.RuleGroups,
    MaySpend <- metrics.MaySpend

Prom == INSTANCE MetricsAggregator WITH
    Units <- prom.Units, Targets <- prom.Targets, AppOf <- prom.AppOf,
    Proms <- prom.Proms, Hosts <- prom.Hosts, Rules <- prom.Rules,
    MaySpend <- prom.MaySpend

Boards == INSTANCE GrafanaDashboards WITH
    Providers <- boards.Providers, Grafanas <- boards.Grafanas,
    Relations <- boards.Relations, Contents <- boards.Contents,
    Corrupt <- boards.Corrupt, NotJson <- boards.NotJson,
    FirstLeads <- boards.FirstLeads, None <- NoValue,
    MaySpend <- boards.MaySpend

Grafana == INSTANCE DashboardAggregator WITH
    Units <- grafana.Units, Targets <- grafana.Targets, AppOf <- grafana.AppOf,
    Dash <- grafana.Dash, May <- grafana.May, Builtin <- grafana.Builtin,
    Grafanas <- grafana.Grafanas, MaySpend <- grafana.MaySpend

Access == INSTANCE MeshPolicies WITH
    Units <- access.Units, FirstLeader <- access.FirstLeader,
    Policies <- access.Policies, Relations <- access.Relations,
    EndpointOf <- access.EndpointOf, AppOf <- access.AppOf,
    Model <- access.Model, Remote <- access.Remote, This <- access.This,
    MaySpend <- access.MaySpend

Loki == INSTANCE LokiPush WITH
    Lokis <- lokiPush.Lokis, Order <- lokiPush.Order, Labelled <- lokiPush.Labelled,
    Urls <- lokiPush.Urls, Disks <- lokiPush.Disks, MaySpend <- lokiPush.MaySpend

Promtail == INSTANCE LogProxy WITH
    Scheme <- promtail.Scheme, Order <- promtail.Order, Urls <- promtail.Urls,
    MaySpend <- promtail.MaySpend

Membership == INSTANCE MeshLabels WITH
    Units <- labels.Units, Labels <- labels.Labels, Foreign <- labels.Foreign,
    Limit <- labels.Limit

\* What the theorems about these modules assume of their constants.
ASSUME ConstantsAssumption ==
    /\ Metrics!ConstantsOK /\ Prom!ConstantsOK
    /\ Boards!ConstantsOK /\ Grafana!ConstantsOK
    /\ Loki!ConstantsOK /\ Promtail!ConstantsOK
    /\ access.FirstLeader \in access.Units
    /\ labels.Labels \cap labels.Foreign = {}
    /\ labels.Limit \in [Membership!EnvSteps -> Nat]
    /\ Samples \subseteq Templates

-----------------------------------------------------------------------------
LibraryNames == {"metrics", "prometheus", "dashboards", "grafana",
                 "policies", "loki", "promtail", "labels", "rendering"}
Absent(v, others) == IF library \in others THEN TRUE ELSE v = None

Init ==
    /\ library \in LibraryNames
    /\ CASE library = "metrics" -> Metrics!Init
         [] library = "prometheus" -> Prom!Init
         [] library = "dashboards" -> Boards!Init
         [] library = "grafana" -> Grafana!Init
         [] library = "policies" -> Access!Init
         [] library = "loki" -> Loki!Init
         [] library = "promtail" -> Promtail!Init
         [] library = "labels" -> Membership!Init
         [] library = "rendering" -> sample \in Samples
    /\ Absent(leaders, {"metrics"}) /\ Absent(jobs, {"metrics"})
    /\ Absent(address, {"metrics"}) /\ Absent(members, {"metrics"})
    /\ Absent(app, {"metrics"}) /\ Absent(unit, {"metrics"})
    /\ Absent(report, {"metrics"}) /\ Absent(scraped, {"metrics"})
    /\ Absent(channel, {"prometheus"}) /\ Absent(present, {"prometheus"})
    /\ Absent(proms, {"prometheus"})
    /\ Absent(peer, {"dashboards"}) /\ Absent(shown, {"dashboards"})
    /\ Absent(grafanas, {"grafana"}) /\ Absent(templates, {"grafana"})
    /\ Absent(mappings, {"grafana"})
    /\ Absent(cmr, {"policies"}) /\ Absent(mesh, {"policies"})
    /\ Absent(published, {"policies"}) /\ Absent(crd, {"policies"})
    /\ Absent(cluster, {"policies"})
    /\ Absent(endpoint, {"loki"}) /\ Absent(rules, {"loki"})
    /\ Absent(event, {"loki"})
    /\ Absent(up, {"promtail"}) /\ Absent(box, {"promtail"})
    /\ Absent(fetched, {"promtail"}) /\ Absent(network, {"promtail"})
    /\ Absent(stuck, {"promtail"})
    /\ Absent(relation, {"labels"}) /\ Absent(announced, {"labels"})
    /\ Absent(mapExists, {"labels"}) /\ Absent(keys, {"labels"})
    /\ Absent(version, {"labels"}) /\ Absent(pc, {"labels"})
    /\ Absent(ev, {"labels"}) /\ Absent(want, {"labels"})
    /\ Absent(read, {"labels"}) /\ Absent(drop, {"labels"})
    /\ Absent(spent, {"labels"})
    /\ Absent(sample, {"rendering"})
    /\ Absent(related, LibraryNames \ {"prometheus", "labels", "rendering"})
    /\ Absent(told, {"metrics", "dashboards", "loki"})
    /\ Absent(todo, LibraryNames \ {"rendering"})
    /\ Absent(due, {"metrics", "policies"})
    /\ Absent(files, {"metrics", "loki"})
    /\ Absent(used, LibraryNames \ {"labels", "rendering"})
    /\ Absent(leader, LibraryNames \ {"metrics", "dashboards", "promtail", "rendering"})
    /\ Absent(offer, {"prometheus", "grafana"})
    /\ Absent(view, {"prometheus", "policies"})
    /\ Absent(board, {"prometheus", "dashboards", "grafana"})
    /\ Absent(stored, {"prometheus", "dashboards"})
    /\ Absent(leads, {"dashboards", "promtail"}) /\ Absent(errors, {"dashboards", "promtail"})
    /\ Absent(disk, {"dashboards", "loki"})
    /\ Absent(url, {"loki", "promtail"})
    /\ Absent(binaries, {"loki", "promtail"})
    /\ Absent(seen, {"promtail", "labels"})

Next ==
    \/ /\ library = "metrics" /\ Metrics!Next
       /\ UNCHANGED <<library, ofPrometheus, ofDashboards, ofGrafana, ofAccess,
                     ofLoki, ofPromtail, ofLabels, leader, offer, view, board,
                     stored, disk, url, binaries, seen, leads, errors, sample>>
    \/ /\ library = "prometheus" /\ Prom!Next
       /\ UNCHANGED <<library, ofMetrics, ofDashboards, ofGrafana, ofAccess,
                     ofLoki, ofPromtail, ofLabels, related, told, due, files,
                     disk, url, binaries, seen, leads, errors, sample>>
    \/ /\ library = "dashboards" /\ Boards!Next
       /\ UNCHANGED <<library, ofMetrics, ofPrometheus, ofGrafana, ofAccess,
                     ofLoki, ofPromtail, ofLabels, due, files, leader, offer,
                     view, url, binaries, seen, sample>>
    \/ /\ library = "grafana" /\ Grafana!Next
       /\ UNCHANGED <<library, ofMetrics, ofPrometheus, ofDashboards, ofAccess,
                     ofLoki, ofPromtail, ofLabels, told, due, files, view,
                     stored, disk, url, binaries, seen, leads, errors, sample>>
    \/ /\ library = "policies" /\ Access!Next
       /\ UNCHANGED <<library, ofMetrics, ofPrometheus, ofDashboards,
                     ofGrafana, ofLoki, ofPromtail, ofLabels, told, files,
                     offer, board, stored, disk, url, binaries, seen, leads, errors, sample>>
    \/ /\ library = "loki" /\ Loki!Next
       /\ UNCHANGED <<library, ofMetrics, ofPrometheus, ofDashboards,
                     ofGrafana, ofAccess, ofPromtail, ofLabels, due, offer,
                     view, board, stored, seen, leads, errors, sample>>
    \/ /\ library = "promtail" /\ Promtail!Next
       /\ UNCHANGED <<library, ofMetrics, ofPrometheus, ofDashboards,
                     ofGrafana, ofAccess, ofLoki, ofLabels, told, due, files,
                     leader, offer, view, board, stored, disk, sample>>
    \/ /\ library = "labels" /\ Membership!Next
       /\ UNCHANGED <<library, ofMetrics, ofPrometheus, ofDashboards,
                     ofGrafana, ofAccess, ofLoki, ofPromtail, related, told,
                     due, files, used, offer, view, board, stored, disk, url,
                     binaries, leads, errors, sample>>

vars == <<library, ofMetrics, ofPrometheus, ofDashboards, ofGrafana, ofAccess,
          ofLoki, ofPromtail, ofLabels, related, told, todo, due, files, used,
          leader, offer, view, board, stored, disk, url, binaries, seen,
          leads, errors, sample>>
Spec == Init /\ [][Next]_vars

-----------------------------------------------------------------------------
(* The properties of the modules, where they are stated with their reasons *)

\* Prometheus is never handed two scrape jobs of the same name.
ScrapeNamesDistinct == library = "metrics" => Metrics!ScrapeNamesDistinct

\* Every unit with an endpoint is scraped where it is, and none that has left.
ScrapesEveryUnit == library = "metrics" => Metrics!ScrapesEveryUnit

\* Rules given to a PrometheusRulesProvider arrive at Prometheus.
ForwardedRulesArrive == library = "metrics" => Metrics!ForwardedRulesArrive

\* What Prometheus cannot use is reported to the unit that can show it.
ErrorsReachLeader == library = "metrics" => Metrics!ErrorsReachLeader

\* The aggregator's targets are those present, in every Prometheus relation.
TargetsCurrent == library = "prometheus" => Prom!TargetsCurrent

\* The aggregator's rules are those of the units present.
RulesCurrent == library = "prometheus" => Prom!RulesCurrent

\* The relations hold the dashboards of the provider that leads.
PublishedCurrent == library = "dashboards" => Boards!PublishedCurrent

\* All units of Grafana show the valid dashboards of the related providers.
GrafanaCurrent == library = "dashboards" => Boards!GrafanaCurrent

\* The provider hears of every dashboard that Grafana refuses.
ErrorsReachProvider == library = "dashboards" => Boards!ErrorsReachProvider

\* The aggregator passes on each dashboard of a related application.
NothingLost == library = "grafana" => Grafana!NothingLost

\* It passes on none of an application that is gone.
NothingLeft == library = "grafana" => Grafana!NothingLeft

\* The mesh admits the related applications, and no others.
AccessCurrent == library = "policies" => Access!AccessCurrent

\* Loki's units announce where they are, but behind a relation with rules.
EndpointsCurrent == library = "loki" => Loki!EndpointsCurrent

\* Loki's units have the rules of their clients' current revisions.
LokiRulesCurrent == library = "loki" => Loki!RulesCurrent

\* A client hears of rules that Loki cannot use.
ErrorsReachClient == library = "loki" => Loki!ErrorsReachClient

\* Promtail runs with the current endpoints, or not at all.
ProxyCurrent == library = "promtail" => Promtail!ProxyCurrent

\* While downloads work, no order of data and containers fails relation_changed
\* of the log proxy, but what Loki reports does.
OnlyReportsFailChanged == library = "promtail" => Promtail!OnlyReportsFailChanged

\* The errors that Loki reports fail no hook.
ReportsAreHandled == library = "promtail" => Promtail!ReportsAreHandled

\* A unit that is alone leaves the labels asked for, and no others of its own.
QuietLabels == library = "labels" => Membership!QuietLabels

\* Panels end at a dropdown that is there.
PanelsResolved == library = "rendering" => Resolved(sample)

\* The queries of top-level panels are confined to the topology.
QueriesConfined == library = "rendering" => Confined(sample)

\* The ranges of queries survive.
QueryRangesKept == library = "rendering" => RangesKept(sample)
=============================================================================
