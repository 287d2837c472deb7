--------------------------- MODULE MetricsEndpoint ---------------------------
(***************************************************************************)
(* The "metrics-endpoint" relations of prometheus_scrape.py: the units of  *)
(* an application with a MetricsEndpointProvider, as this charm is, those  *)
(* of one with a PrometheusRulesProvider, and a Prometheus unit with a     *)
(* MetricsEndpointConsumer, which reads what they publish (ScrapeConfig)   *)
(* and writes back what does not validate.                                 *)
(***************************************************************************)
EXTENDS ScrapeConfig

CONSTANTS
    Relations,   \* relations of Prometheus with either application
    EndpointOf,  \* EndpointOf[r]: r is with the provider of an endpoint
    Units,       \* units of the two applications
    FirstLeaders, \* the leading unit of each application at the start
    Exporters,   \* the units whose application provides an endpoint
    Addresses, IpAddresses, \* what a unit's binding may say, and what is an IP
    JobLists,    \* what the charm may pass as its jobs
    Lookaside,   \* what its lookaside callable returns
    RuleGroups,  \* the alert rules on its disk
    MaySpend     \* how often the environment takes each of its steps

\* Each of the two applications has a leading unit.
ConstantsOK ==
    /\ EndpointOf \in [Relations -> BOOLEAN]
    /\ Exporters \subseteq Units /\ FirstLeaders \subseteq Units
    /\ Exporters \cap FirstLeaders # {} /\ FirstLeaders \ Exporters # {}

EnvSteps == {"relate", "churn", "configure", "leave", "leader", "all"}
Kinds    == {"joined", "changed", "ready", "config", "leader"}

VARIABLES
    leaders,  \* the unit of each application that leads
    jobs,     \* the jobs the charm of the exporters passes
    address,  \* address[u]: what u's network binding says
    members,  \* units that have not left
    related,  \* relations that exist
    app,      \* app[r]: application data of r's provider
    unit,     \* unit[r][u]: the address u has published in r
    report,   \* report[r]: what Prometheus writes back, "jobs" or "rules"
    told,     \* told[u]: errors that u's charm has been told of
    todo,     \* todo[u]: events queued for u
    due,      \* Prometheus has yet to look at what has changed
    scraped,  \* the jobs Prometheus runs
    files,    \* its rule files
    used      \* steps the environment has taken

provider == <<jobs, address, members, leaders>>
databags == <<app, unit>>
consumer == <<due, scraped, files, report>>
vars     == <<provider, related, databags, told, todo, consumer, used>>

NoData   == [jobs |-> <<>>, meta |-> None, rules |-> <<>>]
About(k, r) == <<k, r>>
UnitsIn(r)  == IF EndpointOf[r] THEN Exporters ELSE Units \ Exporters
Endpoints   == {r \in related : EndpointOf[r]}
IsLeader(u) == u \in leaders

\* The unit's address as published: a name that is no IP becomes the FQDN.
UnitAddress(u) == IF address[u] \in IpAddresses THEN address[u] ELSE "fqdn-" \o u

\* jobs.extend(...) reaches self._jobs, which the n-th relation finds with
\* the lookaside jobs of those before; an empty list is not extended.
ScrapeJobs(n) ==
    LET own == [i \in DOMAIN jobs |-> Sanitized(jobs[i])]
        extra == [i \in DOMAIN Lookaside |-> Sanitized(Lookaside[i])]
        all == IF own = <<>> THEN extra ELSE own \o FlattenSeq([i \in 1 .. n |-> extra])
    IN  IF all = <<>> THEN <<DefaultJob>> ELSE all

\* Relations are taken in one order throughout a hook.
Order       == SetToSeq(related)
Position(r) == Cardinality({i \in DOMAIN Order : /\ EndpointOf[Order[i]]
                                                 /\ \E k \in i .. Len(Order) : Order[k] = r})

\* Rules of an endpoint's provider are labelled with its topology.
Labelled(groups, topology) ==
    [g \in DOMAIN groups |-> [groups[g] EXCEPT !.rules =
        [i \in DOMAIN @ |-> [@[i] EXCEPT !.labels = @ @@ [app |-> topology]]]]]

\* mutation: a pebble-ready hook of the exporter refreshes nothing
RefreshesOnJoined(u, k) ==
    IF u \in Exporters THEN k \in {"joined", "config"}
                       ELSE k \in {"joined", "changed", "leader"}

\* mutation: a rules provider does not observe leader_elected
RefreshesUnelected(u, k) ==
    IF u \in Exporters THEN k \in {"joined", "ready", "config"}
                       ELSE k \in {"joined", "changed"}

\* The events on which either provider publishes.
Refreshes(u, k) ==
    IF u \in Exporters THEN k \in {"joined", "ready", "config"}
                       ELSE k \in {"joined", "changed", "leader"}

\* set_scrape_job_spec, update_scrape_job_spec and _update_relation_data.
Publish(u, k) ==
    LET mine == {r \in related : u \in UnitsIn(r) /\ Refreshes(u, k)}
    IN  /\ unit' = [r \in Relations |-> IF r \in mine /\ u \in Exporters
                      THEN [unit[r] EXCEPT ![u] = UnitAddress(u)] ELSE unit[r]]
        /\ app' = [r \in Relations |->
                IF r \notin mine \/ ~IsLeader(u) THEN app[r]
                ELSE IF u \in Exporters
                  THEN [jobs |-> ScrapeJobs(Position(r)), meta |-> "exporter",
                        rules |-> Labelled(RuleGroups, "exporter")]
                  ELSE [app[r] EXCEPT !.rules = RuleGroups]]

\* A hook of unit u; in relation_changed the endpoint's leader passes on what
\* Prometheus has reported.
Handle(u, e) ==
    /\ u \in members /\ e \in todo[u]
    /\ e[1] = "changed" => About("joined", e[2]) \notin todo[u]
    /\ todo' = [todo EXCEPT ![u] = @ \ {e}]
    /\ Publish(u, e[1])
    /\ told' = [told EXCEPT ![u] =
                  IF e[1] = "changed" /\ u \in Exporters /\ IsLeader(u)
                    THEN @ \cup report[e[2]] ELSE @]
    /\ due' = (due \/ databags' # databags)
    /\ UNCHANGED <<provider, related, scraped, files, report, used>>

\* What Prometheus sees of relation r.
Data(r) ==
    [jobs |-> app[r].jobs, meta |-> app[r].meta, rules |-> app[r].rules,
     units |-> members \cap UnitsIn(r), address |-> unit[r], path |-> [u \in Units |-> <<>>]]

\* mutation: errors of the scrape jobs are not written back
ErrorsOfRules(r) == IF RuleErrors(Data(r)) THEN {"rules"} ELSE {}

ErrorsIn(r) == (IF JobErrors(Data(r)) THEN {"jobs"} ELSE {})
                 \cup (IF RuleErrors(Data(r)) THEN {"rules"} ELSE {})

\* relation_changed and _departed of Prometheus: targets_changed, on which
\* its charm takes jobs() and alerts of all relations anew.  Errors once
\* written stay.
TargetsChanged ==
    /\ due /\ due' = FALSE
    /\ scraped' = Jobs([i \in DOMAIN Order |-> Data(Order[i])])
    /\ files' = Alerts([q \in related |-> Data(q)])
    /\ report' = [q \in Relations |-> IF q \in related THEN report[q] \cup ErrorsIn(q) ELSE {}]
    /\ todo' = [u \in Units |-> todo[u] \cup
                  {About("changed", q) : q \in {p \in related : u \in UnitsIn(p) /\ report'[p] # report[p]}}]
    /\ UNCHANGED <<provider, related, databags, told, used>>

-----------------------------------------------------------------------------
Spend(k) ==
    /\ used[k] < MaySpend[k] /\ used["all"] < MaySpend["all"]
    /\ used' = [used EXCEPT ![k] = @ + 1, !["all"] = @ + 1]
Queue(us, e) == todo' = [u \in Units |-> IF u \in us THEN todo[u] \cup {e} ELSE todo[u]]

\* The relation_changed that follows finds no report: the exporters' is left
\* out.
Relate(r) ==
    /\ Spend("relate") /\ r \notin related
    /\ related' = related \cup {r}
    /\ todo' = [u \in Units |-> todo[u] \cup
                  IF u \notin UnitsIn(r) THEN {}
                  ELSE IF EndpointOf[r] THEN {About("joined", r)}
                  ELSE {About("joined", r), About("changed", r)}]
    /\ UNCHANGED <<provider, databags, told, consumer>>

\* A pod is replaced: its address changes and its workload becomes ready.
Churn(u, a) ==
    /\ Spend("churn") /\ u \in Exporters \cap members /\ address[u] # a
    /\ address' = [address EXCEPT ![u] = a]
    /\ Queue({u}, About("ready", None))
    /\ UNCHANGED <<jobs, members, leaders, related, databags, told, consumer>>

Configure(js) ==
    /\ Spend("configure") /\ jobs # js
    /\ jobs' = js
    /\ Queue(Exporters, About("config", None))
    /\ UNCHANGED <<address, members, leaders, related, databags, told, consumer>>

LeaderMoves(u) ==
    /\ Spend("leader") /\ u \in members \ leaders
    /\ leaders' = {u} \cup {v \in leaders : (v \in Exporters) # (u \in Exporters)}
    /\ Queue({u}, About("leader", None))
    /\ UNCHANGED <<jobs, address, members, related, databags, told, consumer>>

Leave(u) ==
    /\ Spend("leave") /\ u \in (Exporters \cap members) \ leaders
    /\ members' = members \ {u}
    /\ due' = (due \/ Endpoints # {})
    /\ todo' = [todo EXCEPT ![u] = {}]
    /\ UNCHANGED <<jobs, address, leaders, related, databags, told, scraped, files, report>>

Init ==
    /\ leaders = FirstLeaders
    /\ jobs \in JobLists /\ address \in [Units -> IpAddresses]
    /\ members = Units /\ related = {}
    /\ app = [r \in Relations |-> NoData]
    /\ unit = [r \in Relations |-> [u \in Units |-> None]]
    /\ told = [u \in Units |-> {}] /\ report = [r \in Relations |-> {}]
    /\ todo = [u \in Units |-> {}] /\ due = FALSE
    /\ scraped = <<>> /\ files = {}
    /\ used = [k \in EnvSteps |-> 0]

Next ==
    \/ \E u \in Units : \/ \E e \in Kinds \X (Relations \cup {None}) : Handle(u, e)
                        \/ \E a \in Addresses : Churn(u, a)
                        \/ LeaderMoves(u) \/ Leave(u)
    \/ TargetsChanged
    \/ \E r \in Relations : Relate(r)
    \/ \E js \in JobLists : Configure(js)

Spec == Init /\ [][Next]_vars

-----------------------------------------------------------------------------
Settled == ~due /\ \A u \in members : todo[u] = {}

Elected(us) == CHOOSE u \in us : IsLeader(u)

\* Prometheus refuses a configuration that names two jobs alike: whatever
\* jobs the charms pass, and however often the same application is related,
\* what jobs() returns never does.
ScrapeNamesDistinct == NamesDistinct(scraped)

WildcardPorts ==
    {t.port : t \in UNION {UNION {{x \in ToSet(Get(c, "targets", <<>>)) : IsWildcard(x)} :
        c \in ToSet(j.configs)} : j \in ToSet(ScrapeJobs(1))}}

\* What Prometheus scrapes for unit u: the targets that are labelled so.
ScrapedFor(u) ==
    UNION {UNION {ToSet(c.targets) : c \in
        {d \in ToSet(j.configs) : Get(d.labels, "unit", None) = u}} : j \in ToSet(scraped)}

\* With everything handled, Prometheus scrapes each unit of the application
\* at its current address, at every port the charm asks for and at no other,
\* and no unit that has left (set_scrape_job_spec: "Ensure scrape target
\* information is made available to prometheus"); the exporters' leader has
\* to be the same throughout, since a new one publishes nothing.
ScrapesEveryUnit ==
    Settled /\ Endpoints # {} /\ used["leader"] = 0 /\ (\A r \in Endpoints : ~JobErrors(Data(r)))
        => \A u \in Exporters : ScrapedFor(u) =
              IF u \in members THEN [host : {UnitAddress(u)}, port : WildcardPorts] ELSE {}

\* The rules that a PrometheusRulesProvider forwards reach Prometheus, with no
\* change but that those labelled with a topology are confined to it, whoever
\* leads while the relation comes up.
ForwardedRulesArrive ==
    Settled /\ RuleGroups # <<>> /\ ValidRules(Injected(RuleGroups)) =>
        \A r \in related \ Endpoints :
            [file |-> <<Identifier(RuleGroups, None), r>>,
             groups |-> Injected(RuleGroups)] \in files

\* What Prometheus cannot use of an application's jobs and rules comes back
\* to its leading unit, which can show it.
ErrorsReachLeader ==
    Settled /\ used["leader"] = 0 =>
        \A r \in Endpoints :
            /\ JobErrors(Data(r)) => "jobs" \in told[Elected(Exporters)]
            /\ RuleErrors(Data(r)) => "rules" \in told[Elected(Exporters)]
=============================================================================
