SPECIFICATION Spec
CONSTANTS
    NoValue = NoValue
    metrics <- ForMetrics
    prom <- ForPrometheus
    boards <- ForDashboards
    grafana <- ForGrafana
    access <- ForAccess
    lokiPush <- ForLoki
    promtail <- ForPromtail
    labels <- ForLabels
    Samples <- SomeTemplates
INVARIANTS
    ScrapeNamesDistinct ScrapesEveryUnit ForwardedRulesArrive ErrorsReachLeader
    TargetsCurrent RulesCurrent
    PublishedCurrent GrafanaCurrent ErrorsReachProvider
    NothingLost NothingLeft
    AccessCurrent
    EndpointsCurrent LokiRulesCurrent ErrorsReachClient
    ProxyCurrent OnlyReportsFailChanged QuietLabels
    PanelsResolved QueriesConfined QueryRangesKept
CHECK_DEADLOCK FALSE
