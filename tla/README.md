# Verification of the PVC Viewer operator

This directory models the charm in `src/` (canonical/pvcviewer-operator) and
the charm libraries kept beside it in TLA+, model-checks the models with TLC and
proves part of what they satisfy with TLAPS.  File names below are relative to
`src/`.

## 1. The system

The operator is a Juju charm that runs the Kubeflow PVC Viewer controller on
Kubernetes.  Juju starts one *hook* at a time in each unit of the application;
a hook rebuilds the Python charm object and dispatches one event.  Units share
the Kubernetes API and Juju's relation data and have no other channel.  The
concurrency is therefore between the hooks of different units and of different
charms, and between a hook and everything that changes while it runs.

The repository also contains the libraries through which the charm talks to
Prometheus, Grafana, Loki and the service mesh.  Each library has two or three
sides (a provider, a consumer, sometimes an aggregator), run by different
charms; this charm instantiates one of them and depends on what the other does
with the data.  Both are in the repository, and both are modelled.

| component | code | state | operations |
|---|---|---|---|
| charm and its component graph | `src/charm.py`, `src/components/*` | `StoredState` (cert, ca, key) per unit; unit status | reconcile on events, remove |
| certificates | `src/certs.py` | none (returns a new CA, certificate and key) | `gen_certs` |
| service-mesh component | `src/components/service_mesh_component.py` | allow-all policy in the cluster | reconcile policy, read gateway metadata, status, remove |
| workload component | `src/components/pebble_component.py` | files and Pebble plan of the container | push files, compute the layer, replan |
| mesh membership labels | `lib/charms/istio_beacon_k8s/v0/service_mesh.py` 337-507, 626-690 | label ConfigMap, labels of StatefulSet and Service | join and leave the mesh |
| mesh policies and cross-model data | same file, 337-442, 510-623 | the application data bag of `service-mesh` | publish policies, exchange cross-model data |
| policy resources | same file, 694-1161 | AuthorizationPolicies in the cluster | build, reconcile, delete |
| service patch | `lib/charms/observability_libs/v1/kubernetes_service_patch.py` | the application's Service | patch on install, update-status and upgrade, delete on remove |
| log forwarding | `lib/charms/loki_k8s/v1/loki_push_api.py` 1536-1605, 2432-2660 | log targets of the Pebble plan | follow the Loki endpoints |
| Loki push API | same file, 760-988, 1143-1534, 1608-1756 | endpoints, alert rules, errors in relation data | publish endpoints and rules, report errors |
| log proxy | same file, 1800-2430 | promtail's layer, binary and configuration per container | set up, reconfigure, stop |
| metrics endpoint | `lib/charms/prometheus_k8s/v0/prometheus_scrape.py` 858-1614, 1617-1688 | `scrape_jobs`, `alert_rules`, unit addresses, errors in relation data | publish, consume, write back errors |
| scrape configuration | same file, 373-576, 1142-1264 | none | sanitize, name, expand wildcards, deduplicate |
| metrics aggregator | same file, 1690-2255 | jobs and rules in StoredState and relation data | add, replace and remove those of an application |
| dashboards | `lib/charms/grafana_k8s/v0/grafana_dashboard.py` 231-365, 547-892, 961-1569 | dashboards in StoredState, relation data and peer data | load, upset, render, report errors |
| dashboard aggregator | same file, 1571-1884 | templates and mappings in StoredState | strip, pass on, remove |

Interactions.  `PvcViewer.__init__` builds `leadership-gate`, from which
`kubernetes` and `service-mesh` depend, and `pebble`, which depends on both; a
component runs only if those it depends on are active.  The CA of the unit's
StoredState goes into both webhook configurations (`kubernetes`), and CA,
certificate and key go into the workload (`pebble`).  The presence of the
`gateway-metadata` relation selects ambient mode for the policy
(`service-mesh`) and for the layer (`pebble`); the relation's *data* selects
the gateway.  The libraries observe events of their own in the same hook,
guarded by `is_leader()` in places and unguarded in others.  Each library's
sides interact through relation data only: what one writes queues a
relation-changed event for the units of the other.

### What is hard

* Certificates live per unit, trust lives per cluster; leadership moves.
* StoredState commits only when a hook succeeds, cluster writes take effect at
  once; a pod that moves loses its StoredState.
* A relation is seen by a unit from its created hook to its broken hook, which
  differ from unit to unit; its data may come later, or change during a hook.
* Which unit writes shared state: a hook of a unit that is not leader, or a
  unit that is merely being removed, can reach code that changes it.
* Multi-step updates (labels: ConfigMap, StatefulSet, Service; webhooks:
  mutating, validating; files: key, certificate, CA; authorization policies;
  promtail's binary and layer) may stop in the middle.
* "Nothing left" as the input: the last Loki endpoint, no policies, no data.
* What is published is recomputed at certain events only: an event that changes
  the answer and is not among them leaves stale data.
* State kept twice (StoredState and relation data, peer data and Grafana's
  files, two dictionaries of an aggregator) has to be kept in step.
* Errors travel back over the relation that brought their cause, to a leader
  that may have changed.

## 2. Modules

| module | models | used by |
|---|---|---|
| `PvcViewerCharm` | charm, component graph, service-mesh and workload components of every unit, against Juju and the Kubernetes API | `MCPvcViewerCharm` |
| `WebhookTrust` | what the charm promises of its certificates | implemented by `PvcViewerCharm` |
| `LogForwarder` | log targets of every unit | `MCLogForwarder` |
| `MeshLabels` | membership labels, one Kubernetes call at a time | `MCMeshLabels`, `Libraries` |
| `ServicePatch` | the application's Service | `MCServicePatch` |
| `MeshPolicies` | policies in relation data, cross-model data, the beacon's reconciliation with the cluster | `Libraries` |
| `ScrapeConfig` | the scrape jobs and rule files that Prometheus makes of relation data, as operators | `MetricsEndpoint` |
| `MetricsEndpoint` | exporters, rule providers and Prometheus | `Libraries` |
| `MetricsAggregator` | scraped applications, the aggregator, several Prometheus relations | `Libraries` |
| `DashboardRendering` | conversion, rendering and stripping of dashboards, as operators | `DashboardAggregator`, `Libraries`; `GrafanaDashboards` reduces it to "renders or not" |
| `GrafanaDashboards` | dashboard providers, Grafana's units and their peer data | `Libraries` |
| `DashboardAggregator` | reactive charms, the aggregator, Grafana relations | `Libraries` |
| `LokiPush` | Loki's units and their clients | `Libraries` |
| `LogProxy` | promtail in the containers of one unit | `Libraries` |
| `Libraries` | the library modules side by side, with their properties | `MCLibraries` |

| module | proves theorems about |
|---|---|
| `PvcViewerCharm_proofs` | `PvcViewerCharm`, `WebhookTrust` |
| `LogForwarder_proofs` | `LogForwarder` |
| `MeshLabels_proofs` | `MeshLabels` |
| `ServicePatch_proofs` | `ServicePatch` |
| `MeshLibraries_proofs` | `MeshPolicies` and `MeshLabels`, as parts of `Libraries` |
| `MetricsLibraries_proofs` | `MetricsEndpoint` and `MetricsAggregator`, as parts of `Libraries` |
| `DashboardLibraries_proofs` | `GrafanaDashboards`, `DashboardAggregator` and `DashboardRendering`, as parts of `Libraries` |
| `LokiLibraries_proofs` | `LokiPush` and `LogProxy`, as parts of `Libraries` |

The modules share conventions.  `Limit[k]` or `MaySpend[k]` bounds how often the
environment takes step *k* (`"all"`, where it is there, bounds their sum); the
charm's own steps are unbounded.  A Juju event is a member of `todo[u]`; a
failed hook is kept for retry.  Operators that follow a comment "mutation:" are
plausible mistakes in the definition that comes next; nothing in the
specification uses them.

`Libraries` puts the library modules, which have no state in common, side by
side: the variable `library`, chosen in the initial state, says which of them
a behaviour is about, and each property is that of one module.  Each module's
constants are the fields of one record (`metrics`, `prom`, `boards`, `grafana`,
`access`, `lokiPush`, `promtail`, `labels`), of which `ConstantsAssumption` says
what the theorems need.  The value "rendering" of `library` has no behaviour:
each initial state is a dashboard of `Samples`, on which the properties of
`DashboardRendering` are evaluated.  `MCLibraries` defines a small instance of
each record.

## 3. Models and code

**PvcViewerCharm.**  A hook of unit *u* is the sequence `Dispatch` (building the
charm object, certificates included), `ApplyResources`, `ReconcileMesh`,
`UpdatePebble`, `Finish`, each taken at the place that `pc[u]` names; any other
unit, and the environment, may step in between.  `HookFails` ends a hook at any
of them, with a prefix of the two webhooks applied or of the three files
pushed.  `Finish` commits StoredState and sets the unit's status; a failed hook
commits neither and is retried.  `stored`, `files`, `plan` and `status` are per
unit; `caBundle` and `allowAll` are the cluster's; `rel`, `metadata` and what a
unit sees of the relations are Juju's.  A certificate is an identity: a new one
is different from all before.  The component graph's `DependsOn` comes from the
`depends_on` arguments; that a component is passed over until those it depends
on are active, and that the unit's status is the worst of the components', is
the behaviour of the chisme library, external to this repository and modelled
from its use.

**WebhookTrust** has no hooks, relations or components: a unit makes a
certificate when it has none (`Hold`), writes it to the files and webhooks in
any order and as often as it likes, possibly failing then (`Write`), and keeps
it only at the end (`Keep`); files, StoredState and webhooks may be lost
(`Lose`).  `PvcViewerCharm` implements it with `held` as `certs`, `kept` as
`stored`, `served` as `files` and `trusted` as `caBundle` (`TrustImplemented`).

**LogForwarder.**  `Handle` is one event in one unit: the endpoints are those of
the *ready* relations, a relation being ready when each unit seen in it has
published; nothing is done when there is none; otherwise the other targets are
disabled and these enabled, if Pebble answers; the leader then sends the alert
rules over the event's relation.  `HandleFails` stops among the disabled ones.
relation-broken is left out: it follows the last relation-departed, and finds
no further endpoint.

**MeshLabels.**  The Kubernetes calls of `reconcile_charm_labels` are separate
actions (`GetObjects`, `GetMap`, `CreateMap` after a 404, `PatchConfigMap`,
`PatchStatefulSet`, `PatchService`), with `DeleteMap` after relation-broken on the leader.  Objects
have versions: a patch made from an object that has changed since is refused
(`Conflict`), as is the creation of a ConfigMap that another unit has created
meanwhile; a patch that changes nothing leaves the version alone.  The
ConfigMap that the hook itself creates is patched without a version.

**ServicePatch.**  The library in this charm's configuration.  In `Get` and `Patch`
an error with which the API server answers (an `ApiError`: `Forbidden`,
`CallFails`) is logged and ends the hook well (`Outcome`); in the upgrade's
`List` and `DeleteBalancer` and in the removal's `RemoveService` it fails the
hook.  A call that goes unanswered (`Unanswered`: connection refused, timeout)
is no `ApiError`: it fails any hook, and may have been carried out all the
same.  The branches for a Service of another name
cannot be reached from `charm.py` and are left out.

**MeshPolicies.**  `Handle` is a hook of a `ServiceMeshConsumer`: the events in
`Observes` lead to `update_service_mesh`, which on the leader publishes one
policy for each pair of a configured policy and a relation of its endpoint,
with the source that cross-model data names where there is some.  `Reconcile`
is the beacon's hook: it validates, builds and reconciles the
AuthorizationPolicies, or only deletes when there are no policies (the one path
that does not need the CRD).  `ReconcileFails` leaves any part of it done.

**ScrapeConfig** and **MetricsEndpoint.**  `ScrapeConfig` holds what happens to a
job on the way to Prometheus: `Sanitized`, `Prefixed`, `Expanded` (a job for
each unit and wildcard, one for the fixed targets), `Deduped` per relation and
once more over all (`Jobs`), validation per relation, and `Alerts` with
identifiers and injected labels.  A name is the sequence of its parts.  In
`MetricsEndpoint`, `Handle` is a hook of an exporter (`MetricsEndpointProvider`)
or of a `PrometheusRulesProvider`; the two differ in the events they publish
at (`Refreshes`).  `TargetsChanged` is Prometheus's hook.  The lookaside jobs are
appended to the charm's own list as often as the code does it (`ScrapeJobs(n)`).

**MetricsAggregator.**  The list of each Prometheus relation and the unit's
StoredState change together (`Rewrite`: the list written last is remembered,
and which relation that is depends on the order in which Juju lists them); `Set`
and `Removed` are the operations on an application's list of jobs or of rule
groups.  A new Prometheus gets the stored lists followed by what the targets say.

**DashboardRendering.**  A dashboard is its uid, inputs, template variables,
panels and rows; a query is its ranges, whether it parses and whether it is
confined to a topology.  `Convert` and `InjectLabels` follow the code's
conversion of fields (`Templating`, `Redirected`), panels (`Known`,
`Modified`) and queries.  A reference to a data source has a name, a form (text or
object) and braces or none: `_modify_panel` knows `${lokids}` and not `$lokids`,
and the conversion brings one to the other.  Names that differ from a dropdown's
in case only, which the two compare differently, are left out.  `Stripped` is the aggregator's deletion of list elements
while their indices are iterated.

**GrafanaDashboards.**  `Provide` is a hook of a provider unit: it scans the
files, stores them, and the leader publishes.  `Consume` is a hook of a Grafana
unit: the leader renders into peer data and writes errors back, and every unit
shows what the peer data holds once it hears of a change.  A dashboard is an
element of `Contents`; which of them do not decompress or parse is a constant.

**DashboardAggregator.**  `Handle` strips, stores and passes on what a reactive
charm offers in the data of its unit or its application (`Asked`), and removes
by the mapping from application to templates.  A hook that raises stays queued:
`Crashes`, a template already removed, or a change of an application's data,
which comes with no unit to read (`event.unit` is None, and the data of None a
KeyError).

**LokiPush.**  `Handle` is a hook of a Loki unit: it publishes its endpoint in the
relations that `Processes` names (the `or` in `_on_lifecycle_event` skips those
behind a relation with rules), takes the alerts and reports errors; on a unit
that does not lead, the report raises and the hook fails.  relation-departed
comes for each unit of a client that goes, of which `Depart` is one while others
stay; a client that is scaled to none is left out.  `HandleClient` is a
hook of a client, whose `AlertRules` reads the rule files of its revision.

**LogProxy.**  `Handle` is an event over all containers in their order; it ends
before the first where Loki has reported errors to the leader (`Rejected`: the
event it would emit does not exist), or at the first container in which a call
raises.  `SetUp` needs the binary's location from the first relation.  The network
is there, is down or breaks downloads off: a refused download (`URLError`) is
passed over and the layer added all the same, one that breaks off raises
(`BreaksOff`).  `Changed` and `Departed` reconfigure, restart and stop.  `Report`
is the other side of the relation, `LokiPush`'s `Invalid` rules.

Left out throughout: wording of statuses and logs, the content of rendered
manifests, certificates and layers beyond what is named above, and syntax
(YAML, JSON, Jinja2, PromQL), which reduces to "valid or not".

## 4. What is checked

| run | question | bounds |
|---|---|---|
| `CharmHandover` | `TypeOK`, `TrustAtActive`, `CertificatesOwn`, `LeaderOnlyWrites`. Two units, leadership moving twice, a failing hook, a lost pod and a unit that leaves: a settled leader's certificate is the one the API server trusts, no two units ever share one, and only the leader's hook, or a remove hook, writes. | 2 units |
| `CharmRelations` | `PlanNeverMixed`, `SettledModeAgrees`, `Converges`, `TrustImplemented`. One unit, both mesh relations coming and going, a failing hook and a restart: the mesh mode of workload, policy and relations agrees, the charm converges, and it implements WebhookTrust. | 1 unit |
| `CharmConverges` | `Converges`. Two units, a leader change while the gateway announces itself: the new leader still converges. | 2 units |
| `CharmRemoval` | violated: `PoliciesRemovedWithCharm`. A unit that leaves while others stay deletes the application's allow-all policy. | 2 units |
| `LogEndpoints` | `TypeOK`, `ForwardingCurrent`, `AlertRulesSent`, `EventuallyForwards`. Loki units of two relations coming, publishing, moving and going, a container restart, a failing Pebble call, a leader change: the log targets follow the endpoints and the leader sends its alert rules. | 1 unit, 3 Loki units in 2 relations, 2 locations |
| `LogLastEndpoint` | violated: `ForwardingMatchesEndpoints`. When the last Loki endpoint goes, its log target stays enabled. | 1 unit |
| `LabelsShared` | `TypeOK`, `ForeignKept`, `LabelsApplied`. Two units interleaving call by call, both creating the ConfigMap, a failing hook, a leader change and a removed relation: foreign labels survive and the wanted ones arrive. | 2 units, 1 label |
| `LabelsCrash` | violated: `QuietLabels`. A hook that stops after the ConfigMap is patched: labels no longer wanted are forgotten and stay. | 1 unit and one failure |
| `ServicePatching` | `UpgradedWithoutBalancer`, `EventuallyPatched`, `BalancerGone`. Two units, missing permission, a failing and an unanswered call, Juju applying its own Service, an upgrade from a load balancer: the load balancer goes and the Service ends up patched. | 2 units |
| `ServiceScaleDown` | violated: `ServiceOutlivesUnits`. One of two units leaves: its remove hook deletes the Service of the application. | 2 units |
| `Libraries` | `ScrapeNamesDistinct`, `ScrapesEveryUnit`, `ForwardedRulesArrive`, `ErrorsReachLeader`, `TargetsCurrent`, `RulesCurrent`, `PublishedCurrent`, `GrafanaCurrent`, `ErrorsReachProvider`, `NothingLost`, `NothingLeft`, `AccessCurrent`, `EndpointsCurrent`, `LokiRulesCurrent`, `ErrorsReachClient`, `ProxyCurrent`, `OnlyReportsFailChanged`, `PanelsResolved`, `QueriesConfined`, `QueryRangesKept`, `QuietLabels`. The libraries that have no state in common side by side: metrics, dashboards, policies, alert rules, promtail, labels, each with units, leader changes and relations coming and going; and samples of dashboard templates. | per library: 1 to 4 units, 1 to 3 relations, 1 to 3 values of each kind of data; the constants of each instance are in `MCLibraries` |
| `ProxyReports` | violated: `ReportsAreHandled`. Loki reports a rule that does not validate: relation_changed raises on the leader, which has no such event to emit. | 2 containers, 2 relations |

The numbers of environment steps are in the MC modules.  Two units suffice for
the interleavings (units share nothing in `LogForwarder` but the alert rules,
which the leader alone sends, hence one unit and a leader that may be another,
`NoLeader`): the code of a unit distinguishes only itself, the leader and
the shared objects, and every known hazard involves one writer and one other.
One or two steps of each kind of the environment, placed anywhere, cover each
pair of them; `CharmHandover` lets leadership go and come back while a unit may
leave, and the labels
of `Libraries` relate twice, because the second round is where stale records
would show.  Two Loki applications, one of two units, are the least in which
one relation is ready and the other is not.

In `Libraries`, two relations of an endpoint are the least in which data of one
can end up in, or hide, the other; a third is for the other kind of provider
(`metrics`) or endpoint (`policies`).  Three steps of the environment in all,
where `"all"` is given, are a set-up and two disturbances; the aggregator of
metrics needs a target, its offer and a Prometheus before anything can be
disturbed, hence six; the aggregator of dashboards and the log proxy need as
much, and have five.  The inputs are chosen so that the code's branches differ:
scrape jobs without a name, with names that collide with the made-up ones, and
invalid; rule files of both formats, unreadable and invalid; dashboards that
render, do not parse, or are not JSON; panels, in rows or not, without a
datasource, with one by text, by object, by input and by variable, with braces
and without.  `ProxyReports` uses the same instance of the log proxy, alone.
The rule groups in the instance of `metrics` are valid; what becomes of invalid ones is
in `ErrorsReachLeader` as proved, for any groups.

`CHECK_DEADLOCK FALSE` is used since a system whose environment is exhausted,
and whose hooks are done, rests.

**What each library property says, and when.**  Each property of `Libraries` is
about a state in which the units concerned have handled their events, and says
that what one side has equals what follows from the present state of the
other.  Their conditions mark the limits of the code, met while modelling:

* *The leader stays* (`ScrapesEveryUnit`, `ErrorsReachLeader`, `TargetsCurrent`,
  `RulesCurrent`, `NothingLost`, `NothingLeft`, `AccessCurrent`,
  `GrafanaCurrent`, `ErrorsReachProvider`, `ErrorsReachClient`).  These
  libraries publish on the leader and observe no election, or keep what
  they need in a StoredState that only the leader fills; a new leader picks up
  at the next event.  `ForwardedRulesArrive` (of valid rules, in every relation),
  `PublishedCurrent` and `LokiRulesCurrent` hold across leader changes.
* *No Prometheus relation is removed* (`TargetsCurrent`, `RulesCurrent`).  The
  list that StoredState remembers is that of one relation.  If that relation is
  removed between the departure of a target and the hook that handles it, the
  hook finds the target in no list and leaves StoredState as it is; the next
  Prometheus is given the target that has departed.
* *No cross-model data is withdrawn* (`AccessCurrent`): the removal of a
  cross-model relation is not observed.
* *Behind a relation with rules* (`EndpointsCurrent`): the short-circuiting `or`
  leaves the later endpoints alone, which shows once a pod is replaced.
* *No job of the endpoint is invalid* (`ScrapesEveryUnit`): one invalid job takes
  all of its relation with it; `ErrorsReachLeader` says that this is
  reported.  Likewise one dashboard that does not render takes those of its
  relation (`GrafanaCurrent`, `ErrorsReachProvider`).  An error once reported in
  relation data is not cleared, nor do the models forget that it was told.
* *An application of one unit that does not change what it offers*
  (`NothingLeft`): the mapping of the dashboard aggregator is overwritten by
  the latest change, and the earlier templates are not removed with the
  application.  `NothingLost` exempts templates that two applications have: the
  first removal takes them, and the second raises KeyError.
* *Downloads have always worked* (`ProxyCurrent`, `OnlyReportsFailChanged`):
  after one that fails the layer is there and the binary is not, and
  relation-changed restarts a service that cannot start.  Even then, what Loki
  reports of the alert rules fails relation-changed on the leader: the second
  property says that nothing else does, and the first is about states in which
  no event is left, hence none of those.
* *Top-level panels* (`QueriesConfined`): panels in rows are converted and not
  confined.
* *No panel refers without braces to a dropdown that the dashboard declares
  itself* (`PanelsResolved`): the dropdown is deleted with the variable.
* *The data of units* (`NothingLost`): a change of an application's own data fails
  the leader's hook for ever, and is not handled as long as the leader stays.
  The comment at `grafana_dashboard.py` 1761 ("Reactive data can reliably be
  pulled out of events") does not hold of it.
* *A range that is the placeholder itself* (`QueryRangesKept`): ranges are put
  back by their text.

**The gate in the charm's runs.**  `LeaderOnlyWrites` is checked in `CharmHandover`,
which has no relations: there it is about the webhooks, and what the remove hook
takes away.  That the mesh component writes behind the gate as well is in
`OnlyLeaderWrites` as proved.  `TrustAtActive` says nothing of a state after a unit
was removed (section 5, `SettledTrust`).  `TrustImplemented` is checked with one
unit in `CharmRelations` and proved for any number.

**Disagreements with the documentation.**  Five runs end in a violated property, a
sentence of the code's own comments:

* `remove` of the service-mesh component runs when *any* unit goes, and removes
  the policies of the application ("Remove all policies on charm removal";
  `CharmRemoval`).
* `_update_logging` takes "no endpoint left" for "nothing to do": the last log
  target stays ("match the active Loki endpoints"; `LogLastEndpoint`).
* `reconcile_charm_labels` rewrites its record before the objects: a hook that
  stops in between (patching the StatefulSet replaces the very pod that runs
  it) leaves labels that no later call removes (`LabelsCrash`).  The overlap of two units, one
  of which still has the previous labels, does so without any failure (the
  same instance with a second unit and no fault): deleting a label that is not
  there yet leaves the Service's version as it was, so the late patch of the
  other unit is not refused.
* `_remove_service` is meant for load balancers; here the name is that of the
  application's ClusterIP Service, which any leaving unit deletes.  `_patch`
  then logs a 404 for ever after (`ServiceScaleDown`).
* `InvalidAlertRuleEvent` "Enables us to set a clear status on the provider".  The
  log proxy emits it as `alert_rule_status_changed`, which `LogProxyEvents` does
  not define: AttributeError on the leader, before any container is handled,
  for as long as Loki's report is in the relation (`ProxyReports`).

Further sentences are contradicted by the code that the models follow.  No run is
given to these:

* `_patch` is documented to raise `PatchFailed` "if patching fails due to lack of
  permissions, or otherwise".  There is no such exception: what the API server
  answers is logged, and the install hook of an application without the
  permission ends well with the Service as Juju made it.
* `_on_alert_rules_changed` of the metrics aggregator: "the list of alert rules for
  that specific target is updated".  Rules are added, and one that a unit has
  replaced stays beside its successor until the unit departs.
* `_inject_labels`: "Go through all the panels and inject topology labels".  Panels
  in rows, which the conversion does reach, are not gone through.
* `_convert_dashboard_fields` "inserts [...] a variable for Prometheus".  A panel
  that refers, without braces, to a variable `prometheusds` of the dashboard's own
  has it deleted again, and no panel can choose the data source.
* "The library will inject a Pebble layer that runs Promtail in the workload
  container": after a refused download the layer is there and nothing starts
  promtail.

**Fairness.**  Liveness is checked under weak fairness of the charm's own steps:
Juju delivers queued events, and retries a failed hook; a container that
restarts becomes ready; update-status fires periodically.  No step of an
administrator or of another charm is assumed, nor that a failure happens or
does not.  Failures, restarts and leader changes are finite in number, as
`Limit` says, which is "the environment calms down".  The library modules state
no liveness: each of their hooks takes one event off a finite queue, so that
what is said of the states without events is what they come to.

## 5. What is proved

`PvcViewerCharm_proofs` holds for any set of units, any bounds on the
environment and any gateway data, from `ConstantsAssumption` alone.

* `TypeCorrect` (`Spec => []TypeOK`), by induction, one step per action.
* `ModeNeverMixed` (`Spec => []PlanNeverMixed`).  `PlanNeverMixed` is not
  inductive: an update of the workload uses the mode and gateway that the
  hook sees, and must know that metadata was there when the mesh component
  let it through.  `MetadataRead` says that; `ModeInv` is `TypeOK`,
  `MetadataRead` and `PlanNeverMixed` together.
* `OnlyLeaderWrites` (`Spec => LeaderOnlyWrites`), an action property: each
  action that changes the shared objects runs behind the leadership gate or in
  a remove hook.
* `ImplementsTrust` (`Spec => TrustImplemented`), the refinement of
  `WebhookTrust`: the initial states agree, and each action is mapped to one of
  `WebhookTrust` or to a stutter (`TrustStep`).  This needs `CertificatesInv`:
  between hooks a unit holds no certificate, in a hook it holds one, and none
  has a number that was not issued.  `DispatchHolds` shows that numbers of new
  certificates are those that `Hold` gives, `PrefixOverwrites` that the part of
  the webhooks or files that a component has written before it fails is an
  overwriting of `WebhookTrust`.
* `OwnCertificates` (`Spec => []CertificatesOwn`) and `OwnCertificateKept`
  (`Spec => Trust!KeptStays`): no two units have a certificate in common, and a
  certificate in a unit's StoredState is never replaced by another, only lost.
  Both are inherited through the refinement from `CertificatesStayOwn` and
  `KeptIsKept`, which hold of `WebhookTrust` for any units, webhooks and files
  (`Trust!Spec => ...`).  Their invariant says that what a unit has was issued
  before, so that a new number is no one's, and that a unit that has kept a
  certificate works with no other, so that keeping does not replace it.
* `SettledTrust` (`Spec => []TrustAtActive`) and `SettledMode`
  (`Spec => [](spent["remove"] = 0 => SettledModeAgrees)`): what the leader's status
  promises holds, for any number of handovers, failing hooks, restarts and
  rescheduled pods, as long as no unit was removed: the remove hook of any unit takes the
  certificates out of the webhooks and the allow-all policy away
  (`RemoveComponents`; see `CharmRemoval`), while the leader, settled, goes on
  as before until a later event has it reconcile.
  Both speak of a leader that has settled; `SettledInv` says of every unit at
  every step what the properties are the end of.  `HookShape` ties a component's
  status to where the hook stands; `TrustSettles` says that what a component
  reports in this hook is written with this hook's certificate, and what the
  status of an idle unit reports with the one that it keeps, unless another unit
  leads or a lifecycle event is left; `ModeSettles` says the same of the mode
  and the gateway, relative to what the unit sees of the relations; and
  `RelationTold` that what it does not see yet, it has an event for.  Without
  the last, a unit with an empty queue might act on a relation that is gone;
  without the second, a new leader might be taken for settled before it has
  written its own certificate.

`LogForwarder_proofs` holds for any units, Loki units, relations and bounds,
from `ConstantsAssumption` alone.

* `TypeCorrect` (`Spec => []TypeOK`).
* `ForwardingStaysCurrent` (`Spec => []ForwardingCurrent`) and `RulesAreSent`
  (`Spec => []AlertRulesSent`).  The invariant, `Inv`, describes a unit that is
  not quiet: `ToldInv` relates the Loki units that it sees and the events in its
  queue to those that exist (each difference has an event), `OfferedInv` says
  that a unit that is gone publishes nothing, and `CurrentInv` that the targets
  are right for what the unit *sees* unless something is left that will have it
  recompute them: a change or a departure, a failed hook, or a container that is
  down or has yet to be ready.  `RulesInv` does so for the leader's alert rules,
  relation by relation: a failed hook of another relation does not excuse a
  relation without rules.

`MeshLabels_proofs` holds for any units, labels and bounds, from
`ConstantsAssumption` alone unless stated otherwise.

* `TypeCorrect` (`Spec => []TypeOK`); its conjuncts about the record and `drop`
  say that only managed labels are ever meant to go.
* `ForeignLabelsKept` (`Spec => []ForeignKept`) follows from it, as managed and
  foreign labels are distinct.
* `OneUnitQuiet`: with one unit and no failing call, `Spec => []QuietLabels`.
  `QuietLabels` speaks of rest only; `LabelInv` says what holds in between:
  which events are queued (`QueueInv`), that what the hook has read is current
  (`ReadInv`), how far record, StatefulSet and Service have fallen behind one
  another at each call (`RecordInv`), for which labels the hook works
  (`TargetInv`), and that an unseen relation leaves none (`UnseenInv`).
  `LabelsCrash` shows that the assumption on failures is needed.

`ServicePatch_proofs` holds for any units and bounds, from `ConstantsAssumption`
alone.

* `TypeCorrect` (`Spec => []TypeOK`).  The invariant is `UnitInv`, one unit at a
  time: the Kubernetes call at which a unit stands is one that its hook makes,
  and the remove hook is queued once, comes last and ends the unit.  Without the
  first part a refused `patch` could belong to any hook; without the second an
  absent unit could have hooks left.  `OneUnit` lifts a step of one unit to all.
* `UpgradesLeaveNoBalancer` (`Spec => []UpgradedWithoutBalancer`): a unit whose
  upgrade hook has come past the load balancer, and is not to be retried, leaves
  none behind.  It is inductive together with `UnitInv`.  That errors of `list` and
  `delete` fail the hook, where those of the patch do not, is what it rests on:
  the hook gets past them only when the list was empty or the deletion
  succeeded, in this try or, with an answer that was lost, in an earlier one; and
  no step makes a load balancer (`BalancerStays`).

The other four modules are about `Libraries`, of which the run checks a small
instance.  Each theorem `Libraries`*P* states `Spec => []`*P* for a property *P* of
that run, for any constants that satisfy `ConstantsAssumption`: the theorems
hold for any units, relations, values and bounds on the environment.  The
argument has two parts.  A theorem about the component alone (`Prom!Spec =>
[]Prom!TargetsCurrent`, for instance) comes from an inductive invariant; a
lemma such as `PromRuns` shows that a behaviour of `Libraries` in which that
component was chosen is a behaviour of it.  All the properties but
`OnlyReportsFailChanged` and `QueriesConfined` are about states in which the events
concerned are handled, so that each invariant says what a state with events
left is on its way to.

`MetricsLibraries_proofs`, of `MetricsEndpoint`, if the exporters and the rule
providers have a leading unit each:

* `ForwardedRulesArrive`.  `ForwardInv`: rules are published in a relation, or a
  leader has an event on which it publishes; what is published is in a file, or
  Prometheus has yet to look.  `LeadersInv`: each application is led by units it
  still has, and that of the rules loses none, so that a publication that is due
  has a unit to make it.
* `ErrorsReachLeader`.  `ReportInv`: what Prometheus cannot use is written back,
  or Prometheus has yet to look; what is written back has been told to the
  leader of the exporters, or is in its queue.

Of `MetricsAggregator`, if it has a unit and no host or rule is "none":

* `TargetsCurrent`, `RulesCurrent`.  `EventsInv`: the targets a unit sees differ from
  those present only by events in its queue.  `ListsInv`, while leadership stays
  and no Prometheus relation was removed, has three parts.  A target is `Clean` if the leader has nothing left to
  handle of it.  `FitInv`: every entry of every list is `Fit`, that is, it has
  what clean targets offer and nothing of targets that are gone and handled.
  `StoredInv`: StoredState remembers an application only as long as some list
  does.  `GivenInv`: no list lacks an application with a clean target.  Only
  together are they inductive: a departure works on the lists and, through the
  one written last, on StoredState, and a new Prometheus copies StoredState.
  The condition on relations was found here.  Without it `StoredInv` is false,
  and TLC shows the trace described in section 4.

`DashboardLibraries_proofs`, of `GrafanaDashboards`, if both applications start
with one leader and "nothing published" is no set of dashboards:

* `PublishedCurrent`, from `ProviderInv`: a unit's StoredState agrees with its disk
  unless it has yet to scan (`StoredInv`), and each relation with the leader's
  StoredState unless the leader has yet to scan, or to greet that relation
  (`BoardInv`).  That a program adds dashboards between an upgrade and the scan
  is the case that needs the two kept apart.
* `GrafanaCurrent`, from `PeerInv` (the peer data is what Grafana's leader makes of
  the relation, unless it has yet to hear of it; a relation that is gone holds
  nothing, so that its successor starts empty) and `ShownInv` (a unit shows what
  the peer data holds or, if it does not lead, has yet to reload it).
* `ErrorsReachProvider`, from `ToldInv` as well: an error in the relation is known
  to the leading provider or in its queue.

Of `DashboardAggregator`, if it has a unit:

* `NothingLost`.  `CollectedInv`: while leadership stays, a dashboard of a related
  application is among the leader's templates or the change is in its queue (where
  a hook that raises stays), and each Grafana has the templates or is in the queue.
  The exemption of templates that two applications have is needed from the
  start: the removal of one takes the other's.
* `NothingLeft`.  `MappedInv`: of an application of one unit and one offer, what the
  leader has passed on is in its mapping, which is empty once the application
  is gone and handled.  `GrafanaTodoInv` keeps a change and a removal of one
  application from being queued at the same time.

Of `DashboardRendering`:

* `QueriesConfined`, of any dashboard in `Templates`, with any number of panels and
  queries.  The property says of a panel what its *template* declares, the
  injection looks at the one form `${...}` of the converted panel: the conversion
  brings every declared form to it, by name, by input, as text or as an object,
  with braces or without (`RedirectedKnown`), keeps panels in their places and their
  queries as they are (`ConvertedPanels`), and comes first; the injection
  then changes each query of the panels it knows (`ModifiedPanel`).  Only top-level
  panels: those in rows are not confined (section 4).

`LokiLibraries_proofs`, of `LokiPush`, if Loki units are no relations and no rules
a client publishes equal "never published":

* `LokiRulesCurrent`.  `RulesInv` says that a client has published the rules of its
  disk or has an event left, `FilesInv` that a Loki unit has written what is
  published or has an event left *that refreshes*: not every event does, and
  that those which do not may be taken off the queue is what is to be shown
  (`HandleFiles`).
* `EndpointsCurrent`, from `EndpointInv`, which keeps the exception the code makes:
  an upgraded unit stops at the first relation that has rules, and that a
  relation has rules is never undone while no relation is removed.
* `ErrorsReachClient`, from `ReportInv`: invalid rules are reported or have the
  leader look again, and a client knows of a report or has yet to be told.

Of `LogProxy`:

* `OnlyReportsFailChanged`.  `OnlineInv`: as long as downloads have worked,
  wherever promtail's layer is its binary is too, so that the restart in
  relation-changed finds a service that starts.  What has to be shown is that a
  hook that raises at one container, or before all of them, and leaves the rest
  as they were, keeps this (`OutcomeCases`), and that the report a hook has failed on
  stays in the relation until that hook is over, whoever leads.
* `ProxyCurrent`, if a published URL is not "none".  `ViewInv`: what the unit sees of the
  relations differs from what there is by its events only.  `SettledInv`: a
  container is as what the unit *sees* has it, or an event is left on which the
  unit comes to it; which events those are differs for a container to be
  stopped, to be reconfigured and to be set up.  `DownInv`: a container that is
  down has lost its layer, so that one that is up again starts from nothing.

`MeshLibraries_proofs`:

* `AccessCurrent`, if the unit that leads first is one of the units.  `ViewTold`: a
  unit's view of a relation differs from what it is exactly when the event is in
  its queue.  `PublishedInv`: the policies in the relation are those of the
  leader's view, unless it has yet to handle a change of the cross-model data or
  of the mesh.  `ClusterInv`: a beacon that has nothing to look at has made the
  cluster what the relation says.
* `QuietLabels`, with one unit and no failing call, which is how the run
  instantiates it.  This is `OneUnitQuiet` of `MeshLabels_proofs`, used through an
  instance of that module.

Only model-checked:

* every liveness property (`Converges`, `LabelsApplied`, `EventuallyForwards`,
  `EventuallyPatched`, `BalancerGone`): fairness and `ENABLED` are outside the
  proof system;
* `ScrapeNamesDistinct` and `ScrapesEveryUnit`: jobs are expanded and deduplicated
  by folds, which need induction over data; the name that distinguishes two
  colliding jobs moreover has a hash, which the model has as the text of the job,
  and that different jobs have different texts is not a fact of the logic;
* `PanelsResolved` and `QueryRangesKept`, which follow panels through flattened
  rows and ranges through their replacement and restoration, folds both.

What `MetricsEndpoint` and `LokiPush` take from these operators they take as it
is: `ForwardedRulesArrive` and `LokiRulesCurrent` say whose rules arrive, not what
is in them.

## 6. What is not modelled

* Policies passed ready-made by a charm (`raw_policies`) and policies that select
  pods by free labels; an external URL of the metrics endpoint; how the
  dashboard aggregator matches its built-in files to an application; a promtail binary attached
  as a resource, its syslog ports and additional scrape configurations.
* `cos-tool`, an external binary, is "valid or not"; so are the expression
  languages.  X.509 content is an identity.
* A load balancer made by, or another name given to, the service patch.
* Conversions between textual representations (URLs, JSON, LZMA and base64).
* The workload itself, its webhooks and the PVCViewer resources it reconciles
  are another program.  Tests were read as documentation.
