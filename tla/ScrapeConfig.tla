---------------------------- MODULE ScrapeConfig ----------------------------
(***************************************************************************)
(* What a Prometheus charm makes of the data of its "metrics-endpoint"     *)
(* relations (prometheus_scrape.py): PrometheusConfig, and the functions   *)
(* of MetricsEndpointConsumer that read relation data.                     *)
(*                                                                         *)
(* Names and paths are sequences of tokens, so that joining "web" and "0"  *)
(* gives the name of a job that is called "web-0".  A job is a record with *)
(* optional fields, as the dictionary is; a target has a host, "*" being   *)
(* the wildcard, and a port.  The data of one relation is a record d:      *)
(* the units in the relation, d.address[u] and d.path[u] of each, and      *)
(* jobs, meta (the provider's topology) and rules of the provider's        *)
(* application.                                                            *)
(***************************************************************************)
EXTENDS Naturals, SequencesExt

None == "none"
Get(f, key, default) == IF key \in DOMAIN f THEN f[key] ELSE default

AllowedKeys == {"name", "path", "configs", "relabel"}
DefaultJob  == [path |-> <<"/metrics">>,
                configs |-> <<[targets |-> <<[host |-> "*", port |-> "80"]>>]>>]

Sanitized(job) == [k \in DOMAIN job \cap AllowedKeys |-> job[k]] @@ DefaultJob
Prefixed(job, prefix) == [name |-> <<prefix>> \o Get(job, "name", <<>>)] @@ job

IsWildcard(t)   == t.host = "*"
IsFixed(t)      == t.host # "*"
OrMetrics(path) == IF path = <<>> THEN <<"/metrics">> ELSE path
Relabelled(job, by) == Append(Get(job, "relabel", <<>>), by)

\* One job for each host: the wildcards of static config c become the host.
\* Labels of c's own win over the topology's.
WildcardJobs(job, c, hosts, topology) ==
    LET wild == SelectSeq(Get(c, "targets", <<>>), IsWildcard)
        JobOf(u) ==
            [name    |-> Append(Get(job, "name", <<"unnamed-job">>), u),
             path    |-> hosts[u].path \o OrMetrics(job.path),
             relabel |-> Relabelled(job, "unit"),
             configs |-> <<[targets |-> [i \in DOMAIN wild |->
                                          [wild[i] EXCEPT !.host = hosts[u].address]],
                            labels |-> Get(c, "labels", <<>>)
                                         @@ [app |-> topology, unit |-> u]]>>]
        units == SetToSeq(DOMAIN hosts)
    IN  IF wild = <<>> THEN <<>> ELSE [i \in DOMAIN units |-> JobOf(units[i]) @@ job]

\* The fixed targets of a job stay together, labelled by application only.
FixedJob(job, topology) ==
    LET Fixed(c) == SelectSeq(Get(c, "targets", <<>>), IsFixed)
        kept == SelectSeq(job.configs, LAMBDA c : Fixed(c) # <<>>)
    IN  IF kept = <<>> THEN <<>>
        ELSE <<[path |-> OrMetrics(job.path), relabel |-> Relabelled(job, "app"),
                configs |-> [i \in DOMAIN kept |->
                    [targets |-> Fixed(kept[i]),
                     labels |-> Get(kept[i], "labels", <<>>) @@ [app |-> topology]]]]
               @@ job>>

Expanded(job, hosts, topology) ==
    FlattenSeq([i \in DOMAIN job.configs |->
                   WildcardJobs(job, job.configs[i], hosts, topology)])
        \o FixedJob(job, topology)

Merged(jobs) ==
    FoldLeft(LAMBDA js, j : IF Contains(js, j) THEN js ELSE Append(js, j), <<>>, jobs)

\* Jobs of one name are told apart by a hash of their contents; after that
\* identical ones are merged.
Deduped(jobs) ==
    LET Unique(i) == \A k \in DOMAIN jobs \ {i} : jobs[k].name # jobs[i].name
        renamed == [i \in DOMAIN jobs |->
                      IF Unique(i) THEN jobs[i]
                      ELSE [jobs[i] EXCEPT !.name = Append(@, ToString(jobs[i]))]]
    IN  Merged(renamed)

Hosts(d) == [u \in {v \in d.units : d.address[v] # None} |->
                [address |-> d.address[u], path |-> d.path[u]]]

StaticScrapeConfig(d) ==
    IF d.units = {} \/ d.jobs = <<>> THEN <<>>
    ELSE IF d.meta = None THEN d.jobs
    ELSE FlattenSeq([i \in DOMAIN d.jobs |->
            Expanded(Sanitized(Prefixed(d.jobs[i], d.meta)), Hosts(d), d.meta)])

\* cos-tool validates as Prometheus would.
NamesDistinct(jobs) == \A i, k \in DOMAIN jobs : jobs[i].name = jobs[k].name => i = k
ValidJobs(jobs) ==
    /\ NamesDistinct(jobs)
    /\ \A i \in DOMAIN jobs : \A c \in ToSet(jobs[i].configs) :
          \A t \in ToSet(c.targets) : t.port # "invalid"

JobsOf(d)    == Deduped(StaticScrapeConfig(d))
JobErrors(d) == ~ValidJobs(JobsOf(d))

\* The jobs of a relation that does not validate are left out altogether.
UsableJobs(d) == LET js == JobsOf(d) IN IF ValidJobs(js) THEN js ELSE <<>>

\* mutation: what several relations have given is not deduplicated again
JobsJoined(data) == FlattenSeq([i \in DOMAIN data |-> UsableJobs(data[i])])

Jobs(data) == Deduped(FlattenSeq([i \in DOMAIN data |-> UsableJobs(data[i])]))

-----------------------------------------------------------------------------
(* Alert rules: a sequence of groups of rules *)

\* Expressions of labelled rules are confined to the labels' topology.
Confined(rule) == IF "app" \in DOMAIN rule.labels
                    THEN [rule EXCEPT !.scope = rule.labels.app] ELSE rule
Injected(groups) ==
    [g \in DOMAIN groups |-> [groups[g] EXCEPT !.rules =
                                [i \in DOMAIN @ |-> Confined(@[i])]]]

\* The application named by the labels of the first group that has any, else
\* by the metadata, else the name of the first group.
Identifier(groups, meta) ==
    LET Labelled(g) == groups[g].rules # <<>> /\ "app" \in DOMAIN groups[g].rules[1].labels
        labelled == {g \in DOMAIN groups : Labelled(g)}
    IN  IF labelled # {}
          THEN groups[CHOOSE g \in labelled : \A h \in labelled : g <= h].rules[1].labels.app
        ELSE IF meta # None THEN meta
        ELSE groups[1].name

ValidRules(groups) ==
    \A g \in DOMAIN groups : \A i \in DOMAIN groups[g].rules :
        groups[g].rules[i].expr # "invalid"

RuleErrors(d) == d.units # {} /\ d.rules # <<>> /\ ~ValidRules(Injected(d.rules))

\* The rule files, named by identifier and relation.
Alerts(data) ==
    LET usable == {r \in DOMAIN data : /\ data[r].units # {} /\ data[r].rules # <<>>
                                       /\ ~RuleErrors(data[r])}
    IN  {[file |-> <<Identifier(data[r].rules, data[r].meta), r>>, groups |-> Injected(data[r].rules)] :
            r \in usable}
=============================================================================
