----------------------------- MODULE MCLibraries -----------------------------
(* A small instance of each library module.                                *)
EXTENDS Libraries

(* MetricsEndpoint: u1 and u2 provide an endpoint, c1 and c2 only rules.   *)

Wild(port) == [targets |-> <<[host |-> "*", port |-> port]>>]
OneJob == <<[configs |-> <<Wild("8080")>>]>>
Alike  == <<[name |-> <<"web">>, configs |-> <<Wild("1"), Wild("2")>>],
            [name |-> <<"web", "u1">>,
             configs |-> <<[targets |-> <<[host |-> "ext", port |-> "9"]>>]>>]>>
Broken == <<[configs |-> <<Wild("invalid")>>]>>

MetricsInstance == [
    Relations |-> {"r1", "r2", "r3"},
    EndpointOf |-> [r \in {"r1", "r2", "r3"} |-> r # "r3"],
    Units |-> {"u1", "u2", "c1", "c2"}, Exporters |-> {"u1", "u2"},
    FirstLeaders |-> {"u1", "c1"}, Addresses |-> {"10.0.0.1", "pod"},
    IpAddresses |-> {"10.0.0.1"}, JobLists |-> {OneJob, Alike, Broken},
    Lookaside |-> <<[name |-> <<"extra">>, configs |-> <<Wild("3")>>]>>,
    RuleGroups |-> <<[name |-> "group",
                      rules |-> <<[expr |-> "up", scope |-> "any", labels |-> <<>>]>>]>>,
    MaySpend |-> [relate |-> 2, churn |-> 1, configure |-> 1, leave |-> 1, leader |-> 1,
                  all |-> 3]]

(* MetricsAggregator *)

PrometheusInstance == [
    Units |-> {"g1", "g2"}, Targets |-> {"t1", "t2"},
    AppOf |-> [x \in {"t1", "t2"} |-> "A"], Proms |-> {"p1", "p2"},
    Hosts |-> {"h1", "h2"}, Rules |-> {"x", "y"},
    MaySpend |-> [join |-> 2, offer |-> 2, depart |-> 1, prometheus |-> 2, unrelate |-> 1,
                  leader |-> 1, all |-> 6]]

(* GrafanaDashboards *)

DashboardsInstance == [
    Providers |-> {"p1", "p2"}, Grafanas |-> {"g1", "g2"},
    Relations |-> {"r1", "r2"}, Contents |-> {"a", "corrupt", "text"},
    Corrupt |-> {"corrupt"}, NotJson |-> {"text"}, FirstLeads |-> {"p1", "g1"},
    MaySpend |-> [relate |-> 2, break |-> 1, upgrade |-> 1, program |-> 1, leader |-> 1,
                  grafana |-> 1, all |-> 3]]

(* DashboardAggregator: stripping c4 raises.                                *)

Listing(l) == [uid |-> NoUid, inputs |-> <<>>, templated |-> TRUE, templating |-> l,
               panels |-> <<>>, rows |-> <<>>]
App == Variable("app", "query")

GrafanaInstance == [
    Units |-> {"g1", "g2"}, Targets |-> {"x1", "x2", "y"},
    AppOf |-> [x \in {"x1", "x2", "y"} |-> IF x = "y" THEN "B" ELSE "A"],
    Dash |-> [c1 |-> Listing(<<App>>), c2 |-> Listing(<<>>),
              c4 |-> Listing(<<App, Variable("host", "query")>>)],
    May |-> [A |-> {"c1"}, B |-> {"c1", "c2", "c4"}],
    Builtin |-> [A |-> {"f"}, B |-> {}], Grafanas |-> {"p1"},
    MaySpend |-> [relate |-> 2, offer |-> 2, break |-> 1, grafana |-> 1, leader |-> 1,
                  all |-> 5]]

(* MeshPolicies *)

AccessInstance == [
    Units |-> {"u1", "u2"}, FirstLeader |-> "u1",
    Policies |-> {[relation |-> "metrics", type |-> "unit", service |-> None, endpoints |-> {}],
                  [relation |-> "web", type |-> "app", service |-> None,
                   endpoints |-> {[port |-> 80, layer |-> 7]}]},
    Relations |-> {"r1", "r2", "r3"},
    EndpointOf |-> [r \in {"r1", "r2", "r3"} |-> IF r = "r3" THEN "web" ELSE "metrics"],
    AppOf |-> [r \in {"r1", "r2", "r3"} |-> IF r = "r1" THEN "prom" ELSE "offer"],
    Model |-> "model", This |-> "app",
    Remote |-> [a \in {"offer"} |-> [app |-> "prom", model |-> "other"]],
    MaySpend |-> [relate |-> 2, break |-> 1, cmr |-> 1, withdraw |-> 1, mesh |-> 2,
                  fault |-> 1, leader |-> 1]]

(* LokiPush *)

Rule(ok) == [labels |-> [severity |-> "high"], scope |-> None, valid |-> ok]
File(f, ok) == [dir |-> <<"sub">>, stem |-> "file", format |-> f,
                groups |-> <<[name |-> "group", rules |-> <<Rule(ok)>>]>>]

LokiInstance == [
    Lokis |-> {"l1", "l2"}, Order |-> <<"r1", "r2">>, Labelled |-> {"r1"},
    Urls |-> {"a", "b"},
    Disks |-> {<<>>, <<File("single", TRUE), File("official", TRUE), File("unreadable", TRUE)>>,
               <<File("official", FALSE)>>},
    MaySpend |-> [relate |-> 2, break |-> 1, depart |-> 1, replace |-> 1, upgrade |-> 1,
                  leader |-> 1, all |-> 3]]

(* LogProxy *)

PromtailInstance == [
    Scheme |-> <<"c1", "c2">>, Order |-> <<"r1", "r2">>, Urls |-> {"a", "b"},
    MaySpend |-> [relate |-> 2, announce |-> 1, publish |-> 2, report |-> 1, remove |-> 1,
                  stop |-> 1, offline |-> 1, leader |-> 1, all |-> 5]]

(* MeshLabels: one unit, whose hooks are not interrupted; the beacon is      *)
(* related twice and changes its mind twice.                               *)

LabelsInstance == [
    Units |-> {"u1"}, Labels |-> {"l1", "l2"}, Foreign |-> {"f1"},
    Limit |-> [relate |-> 2, announce |-> 2, break |-> 2, fault |-> 0, leader |-> 0]]

(* DashboardRendering: every combination of a few of each part             *)

Ref(forms, names, braces, kinds) ==
    [form : forms, name : names, braced : braces, kind : kinds]
Forms   == {"text", "object"}
Refs    == Ref({"none"}, {None}, {FALSE}, {None}) \cup Ref(Forms, {"ds", "in"}, {TRUE}, {"loki"})
             \cup Ref(Forms, {"prometheusds"}, BOOLEAN, {"prometheus"})
             \cup Ref(Forms, {"ds"}, {FALSE}, {"influx"})
Queries == [ranges : {<<>>, <<"1m", "2m">>}, parses : BOOLEAN, confined : {FALSE}]
Panels  == [ds : Refs, targets : {<<q>> : q \in Queries}]
InRow   == [ds : Refs, targets : {<<q>> : q \in {x \in Queries : x.parses /\ x.ranges = <<>>}}]
Lists   == {<<>>, <<Variable("ds", "prometheus")>>, <<Variable("prometheusds", "prometheus")>>,
            <<Variable("ds", "influx"), Variable("in", "prometheus")>>}
SomeTemplates ==
    {t \in [content : [uid : {NoUid}, inputs : {<<>>, <<Variable("in", "loki")>>},
                       templated : BOOLEAN, templating : Lists,
                       panels : {<<p>> : p \in Panels},
                       rows : {<<>>} \cup {<<<<p>>>> : p \in InRow}],
            altUid : {"u"}, inject : BOOLEAN] :
        t.content.templated \/ t.content.templating = <<>>}

(* TLC evaluates a definition once, but one that stands for a constant at   *)
(* every use: those of Libraries.cfg only name the instances above.         *)

ForMetrics == MetricsInstance
ForPrometheus == PrometheusInstance
ForDashboards == DashboardsInstance
ForGrafana == GrafanaInstance
ForAccess == AccessInstance
ForLoki == LokiInstance
ForPromtail == PromtailInstance
ForLabels == LabelsInstance

\* The log proxy alone
PromtailSpec == library = "promtail" /\ Spec
=============================================================================
