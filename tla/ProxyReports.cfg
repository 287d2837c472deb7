SPECIFICATION PromtailSpec
CONSTANTS
    NoValue = NoValue
    metrics <- ForMetrics
    prom <- ForPrometheus
    boards <- ForDashboards
    grafana <- ForGrafana
    access <- ForAccess
    lokiPush <- ForLoki
    promtail <- ForPromtail
    labels <- ForLabels
    Samples <- SomeTemplates
INVARIANTS ReportsAreHandled
CHECK_DEADLOCK FALSE
