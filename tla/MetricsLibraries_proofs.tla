------------------------ MODULE MetricsLibraries_proofs -----------------------
(* What TLAPS proves of MetricsEndpoint and MetricsAggregator: for any     *)
(* relations, units and targets, and however often the environment acts.   *)
EXTENDS Libraries, SequenceTheorems, TLAPS

-----------------------------------------------------------------------------
(* MetricsEndpoint *)


\* What a unit may be told of.
Events == ({"joined", "changed"} \X metrics.Relations) \cup ({"ready", "config", "leader"} \X {Metrics!None})
Errors == {"jobs", "rules"}

MetricsTypeOK ==
    /\ related \subseteq metrics.Relations
    /\ report \in [metrics.Relations -> SUBSET Errors]
    /\ told \in [metrics.Units -> SUBSET Errors]
    /\ todo \in [metrics.Units -> SUBSET Events]
    /\ due \in BOOLEAN
    /\ used \in [Metrics!EnvSteps -> Nat]

\* Each application is led by units it still has; that of rules loses none.
LeadersInv ==
    /\ leaders \subseteq members /\ members \subseteq metrics.Units
    /\ metrics.Units \ metrics.Exporters \subseteq members
    /\ leaders \cap metrics.Exporters # {} /\ leaders \ metrics.Exporters # {}

\* What a rules provider has published once it has.
Forwarded == [jobs |-> <<>>, meta |-> Metrics!None, rules |-> metrics.RuleGroups]

\* The rule file that is to become of it.
FileOf(r) == [file |-> <<Metrics!Identifier(metrics.RuleGroups, Metrics!None), r>>, groups |-> Metrics!Injected(metrics.RuleGroups)]

\* An event that will have unit u publish the rules in relation r.
ToForward(u, r) ==
    {Metrics!About("joined", r), Metrics!About("changed", r), Metrics!About("leader", Metrics!None)} \cap todo[u] # {}

\* Rules are published, or a leader has yet to do so; what is published is in a
\* file, or Prometheus has yet to look.
ForwardInv ==
    \A r \in metrics.Relations : ~metrics.EndpointOf[r] =>
        /\ app[r] = Metrics!NoData \/ (r \in related /\ app[r] = Forwarded)
        /\ r \in related /\ app[r] # Forwarded => \E u \in leaders \ metrics.Exporters : ToForward(u, r)
        /\ r \in related /\ app[r] = Forwarded /\ metrics.RuleGroups # <<>>
              /\ Metrics!ValidRules(Metrics!Injected(metrics.RuleGroups)) => due \/ FileOf(r) \in files

\* What Prometheus cannot use it has written back, or it has yet to look; what it
\* has written, the leader of the exporters has been told or has yet to read.
ReportInv ==
    \A r \in metrics.Relations : metrics.EndpointOf[r] =>
        /\ r \notin related => app[r] = Metrics!NoData /\ report[r] = {}
        /\ r \in related /\ app[r] # Metrics!NoData => due \/ Metrics!ErrorsIn(r) \subseteq report[r]
        /\ r \in related /\ used["leader"] = 0 => \A u \in leaders \cap metrics.Exporters :
              /\ app[r] = Metrics!NoData => Metrics!About("joined", r) \in todo[u]
              /\ \A x \in report[r] : x \in told[u] \/ Metrics!About("changed", r) \in todo[u]

MetricsInv == MetricsTypeOK /\ LeadersInv /\ ForwardInv /\ ReportInv

-----------------------------------------------------------------------------
LEMMA MetricsSpendTyped ==
    ASSUME MetricsTypeOK, NEW k \in Metrics!EnvSteps, Metrics!Spend(k)
    PROVE  /\ used' \in [Metrics!EnvSteps -> Nat]
           /\ k \notin {"leader", "all"} => used'["leader"] = used["leader"]
           /\ k = "leader" => used'["leader"] > 0
  BY DEF MetricsTypeOK, Metrics!Spend, Metrics!EnvSteps

LEMMA SomeEvents ==
    /\ \A r \in metrics.Relations : Metrics!About("joined", r) \in Events /\ Metrics!About("changed", r) \in Events
    /\ \A k \in {"ready", "config", "leader"} : Metrics!About(k, Metrics!None) \in Events
    /\ \A e \in Events : e = Metrics!About(e[1], e[2]) /\ (e[1] \in {"joined", "changed"} => e[2] \in metrics.Relations)
    /\ \A k, h, r, q : Metrics!About(k, r) = Metrics!About(h, q) => k = h /\ r = q
    /\ \A k, r : Metrics!About(k, r)[1] = k /\ Metrics!About(k, r)[2] = r
  BY DEF Events, Metrics!About

LEMMA SomeUnits ==
    ASSUME Metrics!ConstantsOK, NEW r \in metrics.Relations
    PROVE  /\ metrics.EndpointOf[r] => Metrics!UnitsIn(r) = metrics.Exporters
           /\ ~metrics.EndpointOf[r] => Metrics!UnitsIn(r) = metrics.Units \ metrics.Exporters
           /\ metrics.EndpointOf[r] \in BOOLEAN
  BY DEF Metrics!ConstantsOK, Metrics!UnitsIn

LEMMA AnotherRelation == Metrics!NoData # Forwarded <=> metrics.RuleGroups # <<>>
  BY DEF Metrics!NoData, Forwarded

-----------------------------------------------------------------------------
(* Hooks of the providers *)

\* What becomes of relation data in a hook.
LEMMA HookPublishes ==
    ASSUME Metrics!ConstantsOK, MetricsTypeOK, NEW u \in metrics.Units,
           NEW e \in Events, Metrics!Handle(u, e),
           NEW r \in metrics.Relations
    PROVE  /\ r \notin related => app'[r] = app[r]
           /\ app' # app => due'
           /\ app'[r] # app[r] \/ unit'[r] # unit[r] => due'
           /\ ~metrics.EndpointOf[r] /\ app[r] \in {Metrics!NoData, Forwarded} =>
                /\ app'[r] \in {app[r], Forwarded}
                /\ u \in leaders \ metrics.Exporters /\ r \in related
                     /\ e[1] \in {"joined", "changed", "leader"} => app'[r] = Forwarded
           /\ metrics.EndpointOf[r] =>
                /\ app'[r] = app[r] \/ app'[r] # Metrics!NoData
                /\ u \in leaders \cap metrics.Exporters /\ r \in related /\ e[1] = "joined"
                     => app'[r] # Metrics!NoData
<1>1. Metrics!Publish(u, e[1]) /\ due' = (due \/ Metrics!databags' # Metrics!databags)
  BY DEF Metrics!Handle
<1> DEFINE writes == r \in related /\ u \in Metrics!UnitsIn(r) /\ Metrics!Refreshes(u, e[1]) /\ Metrics!IsLeader(u)
<1>2. app'[r] = IF ~writes THEN app[r]
                ELSE IF u \in metrics.Exporters
                  THEN [jobs |-> Metrics!ScrapeJobs(Metrics!Position(r)), meta |-> "exporter",
                        rules |-> Metrics!Labelled(metrics.RuleGroups, "exporter")]
                  ELSE [app[r] EXCEPT !.rules = metrics.RuleGroups]
  BY <1>1 DEF Metrics!Publish
<1>3. app' # app \/ app'[r] # app[r] \/ unit'[r] # unit[r] => due'
  BY <1>1 DEF Metrics!databags
<1>4. ASSUME ~metrics.EndpointOf[r], app[r] \in {Metrics!NoData, Forwarded}
      PROVE  /\ app'[r] \in {app[r], Forwarded}
             /\ u \in leaders \ metrics.Exporters /\ r \in related
                  /\ e[1] \in {"joined", "changed", "leader"} => app'[r] = Forwarded
  <2>1. app[r] = [jobs |-> <<>>, meta |-> Metrics!None, rules |-> app[r].rules]
    BY <1>4 DEF Metrics!NoData, Forwarded
  <2>2. [app[r] EXCEPT !.rules = metrics.RuleGroups] = Forwarded BY <2>1 DEF Forwarded
  <2>3. writes => u \notin metrics.Exporters BY <1>4, SomeUnits
  <2>4. u \in leaders \ metrics.Exporters /\ r \in related /\ e[1] \in {"joined", "changed", "leader"} => writes
    BY <1>4, SomeUnits DEF Metrics!Refreshes, Metrics!IsLeader
  <2>5. QED BY <1>2, <2>2, <2>3, <2>4
<1>5. ASSUME metrics.EndpointOf[r]
      PROVE  /\ app'[r] = app[r] \/ app'[r] # Metrics!NoData
             /\ u \in leaders \cap metrics.Exporters /\ r \in related /\ e[1] = "joined"
                  => app'[r] # Metrics!NoData
  <2>1. writes => u \in metrics.Exporters BY <1>5, SomeUnits
  <2>2. [jobs |-> Metrics!ScrapeJobs(Metrics!Position(r)), meta |-> "exporter",
         rules |-> Metrics!Labelled(metrics.RuleGroups, "exporter")] # Metrics!NoData
    BY DEF Metrics!NoData, Metrics!None
  <2>3. u \in leaders \cap metrics.Exporters /\ r \in related /\ e[1] = "joined" => writes
    BY <1>5, SomeUnits DEF Metrics!Refreshes, Metrics!IsLeader
  <2>4. QED BY <1>2, <2>1, <2>2, <2>3
<1>6. QED BY <1>2, <1>3, <1>4, <1>5

LEMMA HandleTyped ==
    ASSUME MetricsTypeOK, LeadersInv, NEW u \in metrics.Units,
           NEW e \in Events, Metrics!Handle(u, e)
    PROVE  MetricsTypeOK' /\ LeadersInv'
<1>1. told' \in [metrics.Units -> SUBSET Errors]
  <2>1. e[1] = "changed" => report[e[2]] \subseteq Errors BY SomeEvents DEF MetricsTypeOK
  <2>2. QED BY <2>1 DEF Metrics!Handle, MetricsTypeOK
<1>2. QED BY <1>1 DEF Metrics!Handle, MetricsTypeOK, LeadersInv, Metrics!provider

LEMMA HandleForwards ==
    ASSUME Metrics!ConstantsOK, MetricsInv, NEW u \in metrics.Units,
           NEW e \in Events, Metrics!Handle(u, e) PROVE ForwardInv'
<1> SUFFICES ASSUME NEW r \in metrics.Relations, ~metrics.EndpointOf[r]
             PROVE  /\ app'[r] = Metrics!NoData \/ (r \in related /\ app'[r] = Forwarded)
                    /\ r \in related /\ app'[r] # Forwarded =>
                          \E v \in leaders \ metrics.Exporters : ToForward(v, r)'
                    /\ r \in related /\ app'[r] = Forwarded /\ metrics.RuleGroups # <<>>
                          /\ Metrics!ValidRules(Metrics!Injected(metrics.RuleGroups)) => due' \/ FileOf(r) \in files
  BY DEF Metrics!Handle, Metrics!provider, ForwardInv, FileOf
<1>1. /\ app[r] = Metrics!NoData \/ (r \in related /\ app[r] = Forwarded)
      /\ r \in related /\ app[r] # Forwarded => \E v \in leaders \ metrics.Exporters : ToForward(v, r)
      /\ r \in related /\ app[r] = Forwarded /\ metrics.RuleGroups # <<>>
            /\ Metrics!ValidRules(Metrics!Injected(metrics.RuleGroups)) => due \/ FileOf(r) \in files
  BY DEF MetricsInv, ForwardInv
<1>2. MetricsTypeOK BY DEF MetricsInv
<1>3. /\ r \notin related => app'[r] = app[r]
      /\ app'[r] # app[r] => due'
      /\ app'[r] \in {app[r], Forwarded}
      /\ u \in leaders \ metrics.Exporters /\ r \in related
           /\ e[1] \in {"joined", "changed", "leader"} => app'[r] = Forwarded
  BY <1>1, <1>2, HookPublishes
<1>4. (due => due') /\ todo' = [todo EXCEPT ![u] = @ \ {e}] BY DEF Metrics!Handle
<1>5. ASSUME r \in related, app'[r] # Forwarded
      PROVE  \E v \in leaders \ metrics.Exporters : ToForward(v, r)'
  <2>1. PICK v \in leaders \ metrics.Exporters : ToForward(v, r) BY <1>1, <1>3, <1>5
  <2>2. v \in metrics.Units BY DEF MetricsInv, LeadersInv
  <2>3. CASE v # u
    <3>1. todo'[v] = todo[v] BY <1>2, <1>4, <2>2, <2>3 DEF MetricsTypeOK
    <3>2. QED BY <2>1, <3>1 DEF ToForward
  <2>4. CASE v = u
    <3>1. e[1] \notin {"joined", "changed", "leader"} BY <1>3, <1>5, <2>1, <2>4
    <3>2. todo'[u] = todo[u] \ {e} BY <1>2, <1>4 DEF MetricsTypeOK
    <3>3. QED BY <2>1, <2>4, <3>1, <3>2, SomeEvents DEF ToForward
  <2>5. QED BY <2>3, <2>4
<1>6. QED BY <1>1, <1>3, <1>4, <1>5

\* What Prometheus sees is in the data of the relation and the units it has.
LEMMA SameErrors ==
    ASSUME NEW r, app'[r] = app[r], unit'[r] = unit[r], members' = members
    PROVE  Metrics!ErrorsIn(r)' = Metrics!ErrorsIn(r)
<1>1. Metrics!Data(r)' = Metrics!Data(r) BY DEF Metrics!Data, Metrics!UnitsIn
<1>2. Metrics!JobErrors(Metrics!Data(r))' = Metrics!JobErrors(Metrics!Data(r)) /\ Metrics!RuleErrors(Metrics!Data(r))' = Metrics!RuleErrors(Metrics!Data(r))
  BY <1>1
<1>3. QED BY <1>2 DEF Metrics!ErrorsIn

LEMMA HandleReports ==
    ASSUME Metrics!ConstantsOK, MetricsInv, NEW u \in metrics.Units,
           NEW e \in Events, Metrics!Handle(u, e) PROVE ReportInv'
<1>1. MetricsTypeOK BY DEF MetricsInv
<1>2. /\ UNCHANGED <<Metrics!provider, related, scraped, files, report, used>>
      /\ (due => due') /\ todo' = [todo EXCEPT ![u] = @ \ {e}] /\ e \in todo[u]
      /\ told' = [told EXCEPT ![u] =
                    IF e[1] = "changed" /\ u \in metrics.Exporters /\ u \in leaders
                      THEN @ \cup report[e[2]] ELSE @]
  BY DEF Metrics!Handle, Metrics!IsLeader
<1> SUFFICES ASSUME NEW r \in metrics.Relations, metrics.EndpointOf[r]
             PROVE  /\ r \notin related => app'[r] = Metrics!NoData /\ report[r] = {}
                    /\ r \in related /\ app'[r] # Metrics!NoData => due' \/ Metrics!ErrorsIn(r)' \subseteq report[r]
                    /\ r \in related /\ used["leader"] = 0 => \A v \in leaders \cap metrics.Exporters :
                          /\ app'[r] = Metrics!NoData => Metrics!About("joined", r) \in todo'[v]
                          /\ \A x \in report[r] : x \in told'[v] \/ Metrics!About("changed", r) \in todo'[v]
  BY <1>2 DEF Metrics!provider, ReportInv
<1>3. /\ r \notin related => app[r] = Metrics!NoData /\ report[r] = {}
      /\ r \in related /\ app[r] # Metrics!NoData => due \/ Metrics!ErrorsIn(r) \subseteq report[r]
      /\ r \in related /\ used["leader"] = 0 => \A v \in leaders \cap metrics.Exporters :
            /\ app[r] = Metrics!NoData => Metrics!About("joined", r) \in todo[v]
            /\ \A x \in report[r] : x \in told[v] \/ Metrics!About("changed", r) \in todo[v]
  BY DEF MetricsInv, ReportInv
<1>4. /\ r \notin related => app'[r] = app[r]
      /\ app'[r] # app[r] \/ unit'[r] # unit[r] => due'
      /\ app'[r] = app[r] \/ app'[r] # Metrics!NoData
      /\ u \in leaders \cap metrics.Exporters /\ r \in related /\ e[1] = "joined" => app'[r] # Metrics!NoData
  BY <1>1, HookPublishes
<1>5. ASSUME r \in related, app'[r] # Metrics!NoData
      PROVE due' \/ Metrics!ErrorsIn(r)' \subseteq report[r]
  <2>1. CASE app'[r] = app[r] /\ unit'[r] = unit[r]
    <3>1. Metrics!ErrorsIn(r)' = Metrics!ErrorsIn(r) BY <1>2, <2>1, SameErrors DEF Metrics!provider
    <3>2. QED BY <1>2, <1>3, <1>5, <2>1, <3>1
  <2>2. QED BY <1>4, <2>1
<1>6. ASSUME r \in related, used["leader"] = 0, NEW v \in leaders \cap metrics.Exporters
      PROVE  /\ app'[r] = Metrics!NoData => Metrics!About("joined", r) \in todo'[v]
             /\ \A x \in report[r] : x \in told'[v] \/ Metrics!About("changed", r) \in todo'[v]
  <2>1. v \in metrics.Units BY DEF MetricsInv, LeadersInv
  <2>2. CASE v # u
    <3>1. todo'[v] = todo[v] /\ told'[v] = told[v] BY <1>1, <1>2, <2>1, <2>2 DEF MetricsTypeOK
    <3>2. QED BY <1>3, <1>4, <1>6, <3>1
  <2>3. CASE v = u
    <3>1. todo'[u] = todo[u] \ {e} BY <1>1, <1>2 DEF MetricsTypeOK
    <3>2. ASSUME app'[r] = Metrics!NoData PROVE Metrics!About("joined", r) \in todo'[u]
      <4>1. Metrics!About("joined", r) \in todo[u] BY <1>3, <1>4, <1>6, <2>3, <3>2
      <4>2. e[1] # "joined" BY <1>4, <1>6, <2>3, <3>2
      <4>3. QED BY <3>1, <4>1, <4>2, SomeEvents
    <3>3. ASSUME NEW x \in report[r], Metrics!About("changed", r) \notin todo'[u]
          PROVE x \in told'[u]
      <4>1. CASE e = Metrics!About("changed", r)
        <5>1. e[1] = "changed" /\ e[2] = r BY <4>1, SomeEvents
        <5>2. told'[u] = told[u] \cup report[r] BY <1>1, <1>2, <1>6, <2>3, <5>1 DEF MetricsTypeOK
        <5>3. QED BY <3>3, <5>2
      <4>2. CASE e # Metrics!About("changed", r)
        <5>1. x \in told[u] BY <1>3, <1>6, <2>3, <3>1, <3>3, <4>2
        <5>2. told[u] \subseteq told'[u] BY <1>1, <1>2 DEF MetricsTypeOK
        <5>3. QED BY <5>1, <5>2
      <4>3. QED BY <4>1, <4>2
    <3>4. QED BY <2>3, <3>2, <3>3
  <2>4. QED BY <2>2, <2>3
<1>7. QED BY <1>3, <1>4, <1>5, <1>6

LEMMA HandleInv ==
    ASSUME Metrics!ConstantsOK, MetricsInv, NEW u \in metrics.Units,
           NEW e \in Events, Metrics!Handle(u, e) PROVE MetricsInv'
  BY HandleTyped, HandleForwards, HandleReports DEF MetricsInv

-----------------------------------------------------------------------------
(* Prometheus *)

\* Valid rules of a relation there is become the rule file that is promised.
LEMMA FileWritten ==
    ASSUME Metrics!ConstantsOK, MetricsInv,
           NEW r \in related, ~metrics.EndpointOf[r], app[r] = Forwarded,
           metrics.RuleGroups # <<>>, Metrics!ValidRules(Metrics!Injected(metrics.RuleGroups))
    PROVE  FileOf(r) \in Metrics!Alerts([q \in related |-> Metrics!Data(q)])
<1> DEFINE data == [q \in related |-> Metrics!Data(q)]
<1>1. data[r] = Metrics!Data(r) /\ r \in DOMAIN data OBVIOUS
<1>2. data[r].rules = metrics.RuleGroups /\ data[r].meta = Metrics!None /\ data[r].units = members \cap Metrics!UnitsIn(r)
  BY <1>1 DEF Metrics!Data, Forwarded
<1>3. data[r].units # {}
  <2>1. r \in metrics.Relations BY DEF MetricsInv, MetricsTypeOK
  <2>2. PICK u \in leaders : u \notin metrics.Exporters BY DEF MetricsInv, LeadersInv
  <2>3. u \in members \cap Metrics!UnitsIn(r) BY <2>1, <2>2, SomeUnits DEF MetricsInv, LeadersInv
  <2>4. QED BY <1>2, <2>3
<1>4. ~Metrics!RuleErrors(data[r]) BY <1>2 DEF Metrics!RuleErrors
<1> HIDE DEF data
<1>5. [file |-> <<Metrics!Identifier(data[r].rules, data[r].meta), r>>, groups |-> Metrics!Injected(data[r].rules)]
        \in Metrics!Alerts(data)
  BY <1>1, <1>2, <1>3, <1>4 DEF Metrics!Alerts
<1>6. QED BY <1>2, <1>5 DEF FileOf, data

LEMMA TargetsInv == ASSUME Metrics!ConstantsOK, MetricsInv, Metrics!TargetsChanged PROVE MetricsInv'
<1>1. /\ due' = FALSE /\ files' = Metrics!Alerts([q \in related |-> Metrics!Data(q)])
      /\ report' = [q \in metrics.Relations |-> IF q \in related THEN report[q] \cup Metrics!ErrorsIn(q) ELSE {}]
      /\ todo' = [u \in metrics.Units |-> todo[u] \cup
           {Metrics!About("changed", q) : q \in {p \in related : u \in Metrics!UnitsIn(p) /\ report'[p] # report[p]}}]
      /\ UNCHANGED <<Metrics!provider, related, Metrics!databags, told, used>>
  BY DEF Metrics!TargetsChanged
<1>2. MetricsTypeOK BY DEF MetricsInv
<1>3. MetricsTypeOK'
  <2>1. \A q : Metrics!ErrorsIn(q) \subseteq Errors BY DEF Metrics!ErrorsIn, Errors
  <2>2. report' \in [metrics.Relations -> SUBSET Errors] BY <1>1, <1>2, <2>1 DEF MetricsTypeOK
  <2>3. \A q \in related : Metrics!About("changed", q) \in Events
    BY <1>2, SomeEvents DEF MetricsTypeOK
  <2>4. todo' \in [metrics.Units -> SUBSET Events] BY <1>1, <1>2, <2>3 DEF MetricsTypeOK
  <2>5. QED BY <1>1, <1>2, <2>2, <2>4 DEF MetricsTypeOK
<1>4. LeadersInv' BY <1>1 DEF MetricsInv, LeadersInv, Metrics!provider
<1>5. \A u \in metrics.Units : todo[u] \subseteq todo'[u] BY <1>1
<1>6. ForwardInv'
  <2> SUFFICES ASSUME NEW r \in metrics.Relations, ~metrics.EndpointOf[r]
               PROVE  /\ app[r] = Metrics!NoData \/ (r \in related /\ app[r] = Forwarded)
                      /\ r \in related /\ app[r] # Forwarded =>
                            \E v \in leaders \ metrics.Exporters : ToForward(v, r)'
                      /\ r \in related /\ app[r] = Forwarded /\ metrics.RuleGroups # <<>>
                            /\ Metrics!ValidRules(Metrics!Injected(metrics.RuleGroups)) => FileOf(r) \in files'
    BY <1>1 DEF Metrics!provider, Metrics!databags, ForwardInv, FileOf
  <2>1. ASSUME r \in related, app[r] # Forwarded
        PROVE \E v \in leaders \ metrics.Exporters : ToForward(v, r)'
    <3>1. PICK v \in leaders \ metrics.Exporters : ToForward(v, r)
      BY <2>1 DEF MetricsInv, ForwardInv
    <3>2. v \in metrics.Units BY DEF MetricsInv, LeadersInv
    <3>3. QED BY <1>5, <3>1, <3>2 DEF ToForward
  <2>2. QED BY <1>1, <2>1, FileWritten DEF MetricsInv, ForwardInv
<1>7. ReportInv'
  <2> SUFFICES ASSUME NEW r \in metrics.Relations, metrics.EndpointOf[r]
               PROVE  /\ r \notin related => app[r] = Metrics!NoData /\ report'[r] = {}
                      /\ r \in related /\ app[r] # Metrics!NoData => Metrics!ErrorsIn(r)' \subseteq report'[r]
                      /\ r \in related /\ used["leader"] = 0 => \A v \in leaders \cap metrics.Exporters :
                            /\ app[r] = Metrics!NoData => Metrics!About("joined", r) \in todo'[v]
                            /\ \A x \in report'[r] : x \in told[v] \/ Metrics!About("changed", r) \in todo'[v]
    BY <1>1 DEF Metrics!provider, Metrics!databags, ReportInv
  <2>1. Metrics!ErrorsIn(r)' = Metrics!ErrorsIn(r)
    BY <1>1, SameErrors DEF Metrics!databags, Metrics!provider
  <2>2. report'[r] = IF r \in related THEN report[r] \cup Metrics!ErrorsIn(r) ELSE {} BY <1>1
  <2>3. ASSUME r \in related, used["leader"] = 0, NEW v \in leaders \cap metrics.Exporters
        PROVE  /\ app[r] = Metrics!NoData => Metrics!About("joined", r) \in todo'[v]
               /\ \A x \in report'[r] : x \in told[v] \/ Metrics!About("changed", r) \in todo'[v]
    <3>1. v \in metrics.Units /\ v \in Metrics!UnitsIn(r) BY SomeUnits DEF MetricsInv, LeadersInv
    <3>2. /\ app[r] = Metrics!NoData => Metrics!About("joined", r) \in todo[v]
          /\ \A x \in report[r] : x \in told[v] \/ Metrics!About("changed", r) \in todo[v]
      BY <2>3 DEF MetricsInv, ReportInv
    <3>3. report'[r] # report[r] => Metrics!About("changed", r) \in todo'[v] BY <1>1, <2>3, <3>1
    <3>4. QED BY <1>5, <3>1, <3>2, <3>3
  <2>4. QED BY <2>1, <2>2, <2>3 DEF MetricsInv, ReportInv
<1>8. QED BY <1>3, <1>4, <1>6, <1>7 DEF MetricsInv

-----------------------------------------------------------------------------
(* The environment *)

\* Where relation data, units and reports stay, more events do no harm.
LEMMA MoreEvents ==
    ASSUME MetricsInv, UNCHANGED <<related, Metrics!databags, told, Metrics!consumer, leaders, members>>,
           \A u \in metrics.Units : todo[u] \subseteq todo'[u],
           used' \in [Metrics!EnvSteps -> Nat], used'["leader"] = used["leader"]
    PROVE  LeadersInv' /\ ForwardInv' /\ ReportInv'
<1>1. \A u \in leaders : u \in metrics.Units BY DEF MetricsInv, LeadersInv
<1>2. \A r : \A u \in leaders : ToForward(u, r) => ToForward(u, r)' BY <1>1 DEF ToForward
<1>3. \A r : Metrics!ErrorsIn(r)' = Metrics!ErrorsIn(r) BY SameErrors DEF Metrics!databags
<1>4. ForwardInv' BY <1>2 DEF MetricsInv, ForwardInv, Metrics!databags, Metrics!consumer, FileOf
<1>5. ReportInv' BY <1>1, <1>3 DEF MetricsInv, ReportInv, Metrics!databags, Metrics!consumer
<1>6. QED BY <1>4, <1>5 DEF MetricsInv, LeadersInv

LEMMA ChurnInv == ASSUME MetricsInv, NEW u \in metrics.Units, NEW a \in metrics.Addresses, Metrics!Churn(u, a)
                  PROVE MetricsInv'
<1>1. used' \in [Metrics!EnvSteps -> Nat] /\ used'["leader"] = used["leader"]
  BY MetricsSpendTyped DEF Metrics!Churn, MetricsInv, Metrics!EnvSteps
<1>2. Metrics!About("ready", Metrics!None) \in Events BY SomeEvents
<1>3. todo' \in [metrics.Units -> SUBSET Events] /\ \A v \in metrics.Units : todo[v] \subseteq todo'[v]
  BY <1>2 DEF Metrics!Churn, Metrics!Queue, MetricsInv, MetricsTypeOK
<1>4. MetricsTypeOK' BY <1>1, <1>3 DEF Metrics!Churn, MetricsInv, MetricsTypeOK, Metrics!consumer
<1>5. QED BY <1>1, <1>3, <1>4, MoreEvents DEF Metrics!Churn, MetricsInv

LEMMA ConfigureInv == ASSUME MetricsInv, NEW js \in metrics.JobLists, Metrics!Configure(js)
                      PROVE MetricsInv'
<1>1. used' \in [Metrics!EnvSteps -> Nat] /\ used'["leader"] = used["leader"]
  BY MetricsSpendTyped DEF Metrics!Configure, MetricsInv, Metrics!EnvSteps
<1>2. Metrics!About("config", Metrics!None) \in Events BY SomeEvents
<1>3. todo' \in [metrics.Units -> SUBSET Events] /\ \A v \in metrics.Units : todo[v] \subseteq todo'[v]
  BY <1>2 DEF Metrics!Configure, Metrics!Queue, MetricsInv, MetricsTypeOK
<1>4. MetricsTypeOK'
  BY <1>1, <1>3 DEF Metrics!Configure, MetricsInv, MetricsTypeOK, Metrics!consumer
<1>5. QED BY <1>1, <1>3, <1>4, MoreEvents DEF Metrics!Configure, MetricsInv

LEMMA LeaderInv == ASSUME Metrics!ConstantsOK, MetricsInv, NEW u \in metrics.Units, Metrics!LeaderMoves(u)
                   PROVE MetricsInv'
<1>1. /\ leaders' = {u} \cup {v \in leaders : (v \in metrics.Exporters) # (u \in metrics.Exporters)}
      /\ todo' = [v \in metrics.Units |-> IF v \in {u} THEN todo[v] \cup {Metrics!About("leader", Metrics!None)} ELSE todo[v]]
      /\ u \in members /\ Metrics!Spend("leader")
      /\ UNCHANGED <<jobs, address, members, related, Metrics!databags, told, Metrics!consumer>>
  BY DEF Metrics!LeaderMoves, Metrics!Queue
<1>2. used' \in [Metrics!EnvSteps -> Nat] /\ used'["leader"] > 0
  BY <1>1, MetricsSpendTyped DEF MetricsInv, Metrics!EnvSteps
<1>3. Metrics!About("leader", Metrics!None) \in Events BY SomeEvents
<1>4. todo' \in [metrics.Units -> SUBSET Events] /\ \A v \in metrics.Units : todo[v] \subseteq todo'[v]
  BY <1>1, <1>3 DEF MetricsInv, MetricsTypeOK
<1>5. MetricsTypeOK' BY <1>1, <1>2, <1>4 DEF MetricsInv, MetricsTypeOK, Metrics!consumer
<1>6. LeadersInv' BY <1>1 DEF MetricsInv, LeadersInv
<1>7. ForwardInv'
  <2> SUFFICES ASSUME NEW r \in metrics.Relations, ~metrics.EndpointOf[r], r \in related, app[r] # Forwarded
               PROVE  \E v \in leaders' \ metrics.Exporters : ToForward(v, r)'
    BY <1>1 DEF MetricsInv, ForwardInv, Metrics!databags, Metrics!consumer, FileOf
  <2>1. CASE u \in metrics.Exporters
    <3>1. PICK v \in leaders \ metrics.Exporters : ToForward(v, r) BY DEF MetricsInv, ForwardInv
    <3>2. v \in leaders' /\ v \in metrics.Units BY <1>1, <2>1, <3>1 DEF MetricsInv, LeadersInv
    <3>3. QED BY <1>4, <3>1, <3>2 DEF ToForward
  <2>2. CASE u \notin metrics.Exporters
    <3>1. Metrics!About("leader", Metrics!None) \in todo'[u] BY <1>1
    <3>2. QED BY <1>1, <2>2, <3>1 DEF ToForward
  <2>3. QED BY <2>1, <2>2
<1>8. ReportInv'
  <2>1. \A r : Metrics!ErrorsIn(r)' = Metrics!ErrorsIn(r) BY <1>1, SameErrors DEF Metrics!databags
  <2>2. ~(used'["leader"] = 0) BY <1>2
  <2>3. QED BY <1>1, <2>1, <2>2 DEF MetricsInv, ReportInv, Metrics!databags, Metrics!consumer
<1>9. QED BY <1>5, <1>6, <1>7, <1>8 DEF MetricsInv

LEMMA LeaveInv == ASSUME Metrics!ConstantsOK, MetricsInv, NEW u \in metrics.Units, Metrics!Leave(u)
                  PROVE MetricsInv'
<1>1. /\ u \in metrics.Exporters /\ u \notin leaders /\ members' = members \ {u}
      /\ due' = (due \/ Metrics!Endpoints # {}) /\ todo' = [todo EXCEPT ![u] = {}]
      /\ UNCHANGED <<jobs, address, leaders, related, Metrics!databags, told, scraped, files, report>>
      /\ Metrics!Spend("leave")
  BY DEF Metrics!Leave
<1>2. used' \in [Metrics!EnvSteps -> Nat] /\ used'["leader"] = used["leader"]
  BY <1>1, MetricsSpendTyped DEF MetricsInv, Metrics!EnvSteps
<1>3. MetricsTypeOK' BY <1>1, <1>2 DEF MetricsInv, MetricsTypeOK
<1>4. LeadersInv' BY <1>1 DEF MetricsInv, LeadersInv
<1>5. \A v \in leaders : todo'[v] = todo[v] BY <1>1 DEF MetricsInv, LeadersInv, MetricsTypeOK
<1>6. ForwardInv'
  <2>1. \A r : \A v \in leaders : ToForward(v, r)' <=> ToForward(v, r) BY <1>5 DEF ToForward
  <2>2. QED BY <1>1, <2>1 DEF MetricsInv, ForwardInv, Metrics!databags, FileOf
<1>7. ReportInv'
  <2>1. \A r \in metrics.Relations : metrics.EndpointOf[r] /\ r \in related => due'
    BY <1>1 DEF Metrics!Endpoints
  <2>2. QED BY <1>1, <1>2, <1>5, <2>1 DEF MetricsInv, ReportInv, Metrics!databags
<1>8. QED BY <1>3, <1>4, <1>6, <1>7 DEF MetricsInv

LEMMA RelateInv == ASSUME Metrics!ConstantsOK, MetricsInv, NEW r \in metrics.Relations, Metrics!Relate(r)
                   PROVE MetricsInv'
<1>1. /\ r \notin related /\ related' = related \cup {r}
      /\ todo' = [u \in metrics.Units |-> todo[u] \cup
                    IF u \notin Metrics!UnitsIn(r) THEN {}
                    ELSE IF metrics.EndpointOf[r] THEN {Metrics!About("joined", r)}
                    ELSE {Metrics!About("joined", r), Metrics!About("changed", r)}]
      /\ UNCHANGED <<Metrics!provider, Metrics!databags, told, Metrics!consumer>>
      /\ Metrics!Spend("relate")
  BY DEF Metrics!Relate
<1>2. used' \in [Metrics!EnvSteps -> Nat] /\ used'["leader"] = used["leader"]
  BY <1>1, MetricsSpendTyped DEF MetricsInv, Metrics!EnvSteps
<1>3. Metrics!About("joined", r) \in Events /\ Metrics!About("changed", r) \in Events BY SomeEvents
<1>4. todo' \in [metrics.Units -> SUBSET Events] BY <1>1, <1>3 DEF MetricsInv, MetricsTypeOK
<1>5. MetricsTypeOK' BY <1>1, <1>2, <1>4 DEF MetricsInv, MetricsTypeOK, Metrics!consumer
<1>6. LeadersInv' BY <1>1 DEF MetricsInv, LeadersInv, Metrics!provider
<1>7. /\ \A u \in metrics.Units : todo[u] \subseteq todo'[u]
      /\ \A u \in metrics.Units : u \in Metrics!UnitsIn(r) => Metrics!About("joined", r) \in todo'[u]
  BY <1>1
<1>8. /\ leaders' = leaders /\ members' = members /\ app' = app /\ unit' = unit /\ due' = due
      /\ report' = report /\ files' = files /\ told' = told
  BY <1>1 DEF Metrics!provider, Metrics!databags, Metrics!consumer
<1>9. \A u \in leaders : u \in metrics.Units BY DEF MetricsInv, LeadersInv
<1>10. ForwardInv'
  <2>1. \A q : \A u \in leaders : ToForward(u, q) => ToForward(u, q)' BY <1>7, <1>9 DEF ToForward
  <2>2. ASSUME ~metrics.EndpointOf[r] PROVE /\ app[r] = Metrics!NoData
                                           /\ \E u \in leaders \ metrics.Exporters : ToForward(u, r)'
    <3>1. PICK u \in leaders : u \notin metrics.Exporters BY DEF MetricsInv, LeadersInv
    <3>2. Metrics!About("joined", r) \in todo'[u] BY <1>7, <1>9, <2>2, <3>1, SomeUnits
    <3>3. QED BY <1>1, <2>2, <3>1, <3>2 DEF ToForward, MetricsInv, ForwardInv
  <2>3. Metrics!NoData = Forwarded => metrics.RuleGroups = <<>> BY AnotherRelation
  <2>4. ASSUME NEW q \in metrics.Relations, ~metrics.EndpointOf[q]
        PROVE  /\ app[q] = Metrics!NoData \/ (q \in related' /\ app[q] = Forwarded)
               /\ q \in related' /\ app[q] # Forwarded =>
                     \E u \in leaders \ metrics.Exporters : ToForward(u, q)'
               /\ q \in related' /\ app[q] = Forwarded /\ metrics.RuleGroups # <<>>
                     /\ Metrics!ValidRules(Metrics!Injected(metrics.RuleGroups)) => due \/ FileOf(q) \in files
    <3>1. CASE q = r BY <2>2, <2>3, <2>4, <3>1
    <3>2. CASE q # r BY <1>1, <2>1, <2>4, <3>2 DEF MetricsInv, ForwardInv
    <3>3. QED BY <3>1, <3>2
  <2>5. QED BY <1>8, <2>4 DEF ForwardInv, FileOf
<1>11. ReportInv'
  <2>1. \A q : Metrics!ErrorsIn(q)' = Metrics!ErrorsIn(q) BY <1>8, SameErrors
  <2>2. ASSUME NEW q \in metrics.Relations, metrics.EndpointOf[q]
        PROVE  /\ q \notin related' => app[q] = Metrics!NoData /\ report[q] = {}
               /\ q \in related' /\ app[q] # Metrics!NoData => due \/ Metrics!ErrorsIn(q) \subseteq report[q]
               /\ q \in related' /\ used["leader"] = 0 => \A u \in leaders \cap metrics.Exporters :
                     /\ app[q] = Metrics!NoData => Metrics!About("joined", q) \in todo'[u]
                     /\ \A x \in report[q] : x \in told[u] \/ Metrics!About("changed", q) \in todo'[u]
    <3>1. CASE q = r
      <4>1. app[r] = Metrics!NoData /\ report[r] = {} BY <1>1, <2>2, <3>1 DEF MetricsInv, ReportInv
      <4>2. \A u \in leaders \cap metrics.Exporters : Metrics!About("joined", r) \in todo'[u]
        BY <1>7, <1>9, <2>2, <3>1, SomeUnits
      <4>3. QED BY <3>1, <4>1, <4>2
    <3>2. CASE q # r
      <4>1. q \in related' <=> q \in related BY <1>1, <3>2
      <4>2. /\ q \notin related => app[q] = Metrics!NoData /\ report[q] = {}
            /\ q \in related /\ app[q] # Metrics!NoData => due \/ Metrics!ErrorsIn(q) \subseteq report[q]
            /\ q \in related /\ used["leader"] = 0 => \A u \in leaders \cap metrics.Exporters :
                  /\ app[q] = Metrics!NoData => Metrics!About("joined", q) \in todo[u]
                  /\ \A x \in report[q] : x \in told[u] \/ Metrics!About("changed", q) \in todo[u]
        BY <2>2 DEF MetricsInv, ReportInv
      <4>3. QED BY <1>7, <1>9, <4>1, <4>2
    <3>3. QED BY <3>1, <3>2
  <2>3. QED BY <1>2, <1>8, <2>1, <2>2 DEF ReportInv
<1>12. QED BY <1>5, <1>6, <1>10, <1>11 DEF MetricsInv

LEMMA NextInv == ASSUME Metrics!ConstantsOK, MetricsInv, [Metrics!Next]_(Metrics!vars)
                 PROVE MetricsInv'
<1>1. ASSUME NEW u \in metrics.Units,
             NEW e \in Metrics!Kinds \X (metrics.Relations \cup {Metrics!None}), Metrics!Handle(u, e)
      PROVE MetricsInv'
  <2>1. e \in Events BY <1>1 DEF Metrics!Handle, MetricsInv, MetricsTypeOK
  <2>2. QED BY <1>1, <2>1, HandleInv
<1>2. CASE UNCHANGED Metrics!vars
  <2>1. UNCHANGED <<related, Metrics!databags, told, Metrics!consumer, leaders, members, todo, used>>
    BY <1>2 DEF Metrics!vars, Metrics!provider
  <2>2. MetricsTypeOK' BY <2>1 DEF MetricsInv, MetricsTypeOK, Metrics!consumer
  <2>3. used' \in [Metrics!EnvSteps -> Nat] /\ used'["leader"] = used["leader"]
    BY <2>1 DEF MetricsInv, MetricsTypeOK
  <2>4. QED BY <2>1, <2>2, <2>3, MoreEvents DEF MetricsInv
<1>3. QED
  BY <1>1, <1>2, ChurnInv, ConfigureInv, LeaderInv, LeaveInv, RelateInv, TargetsInv DEF Metrics!Next

LEMMA MetricsInitInv == ASSUME Metrics!ConstantsOK, Metrics!Init PROVE MetricsInv
<1>1. MetricsTypeOK /\ LeadersInv
  BY DEF Metrics!Init, MetricsTypeOK, LeadersInv, Metrics!ConstantsOK
<1>2. ForwardInv /\ ReportInv BY DEF Metrics!Init, ForwardInv, ReportInv
<1>3. QED BY <1>1, <1>2 DEF MetricsInv

LEMMA MetricsSpecInv == ASSUME Metrics!ConstantsOK PROVE Metrics!Spec => []MetricsInv
  BY MetricsInitInv, NextInv, PTL DEF Metrics!Spec

\* The rules that a PrometheusRulesProvider forwards reach Prometheus, whoever
\* leads while the relation comes up, for any rules, units and relations.
THEOREM ForwardedRulesReach == ASSUME Metrics!ConstantsOK
                               PROVE Metrics!Spec => []Metrics!ForwardedRulesArrive
<1>1. MetricsInv => Metrics!ForwardedRulesArrive
  <2> SUFFICES ASSUME MetricsInv, Metrics!Settled, metrics.RuleGroups # <<>>, Metrics!ValidRules(Metrics!Injected(metrics.RuleGroups)),
                      NEW r \in related \ Metrics!Endpoints
               PROVE  FileOf(r) \in files
    BY DEF Metrics!ForwardedRulesArrive, FileOf
  <2>1. r \in metrics.Relations /\ ~metrics.EndpointOf[r]
    BY DEF MetricsInv, MetricsTypeOK, Metrics!Endpoints
  <2>2. \A u \in leaders : ~ToForward(u, r)
    BY DEF Metrics!Settled, MetricsInv, LeadersInv, ToForward
  <2>3. app[r] = Forwarded BY <2>1, <2>2 DEF MetricsInv, ForwardInv
  <2>4. due \/ FileOf(r) \in files BY <2>1, <2>3 DEF MetricsInv, ForwardInv
  <2>5. QED BY <2>4 DEF Metrics!Settled
<1>2. QED BY <1>1, MetricsSpecInv, PTL

\* What Prometheus cannot use of an application's jobs and rules comes back to
\* its leading unit, as long as that leads.
THEOREM ErrorsComeBack == ASSUME Metrics!ConstantsOK
                          PROVE Metrics!Spec => []Metrics!ErrorsReachLeader
<1>1. MetricsInv => Metrics!ErrorsReachLeader
  <2> SUFFICES ASSUME MetricsInv, Metrics!Settled, used["leader"] = 0, NEW r \in Metrics!Endpoints
               PROVE  Metrics!ErrorsIn(r) \subseteq told[Metrics!Elected(metrics.Exporters)]
    BY DEF Metrics!ErrorsReachLeader, Metrics!ErrorsIn
  <2>1. r \in metrics.Relations /\ r \in related /\ metrics.EndpointOf[r]
    BY DEF MetricsInv, MetricsTypeOK, Metrics!Endpoints
  <2>2. \E u \in metrics.Exporters : Metrics!IsLeader(u)
    BY DEF MetricsInv, LeadersInv, Metrics!IsLeader
  <2>3. Metrics!Elected(metrics.Exporters) \in leaders \cap metrics.Exporters
    BY <2>2 DEF Metrics!Elected, Metrics!IsLeader
  <2>4. todo[Metrics!Elected(metrics.Exporters)] = {}
    BY <2>3 DEF Metrics!Settled, MetricsInv, LeadersInv
  <2>5. app[r] # Metrics!NoData /\ \A x \in report[r] : x \in told[Metrics!Elected(metrics.Exporters)]
    BY <2>1, <2>3, <2>4 DEF MetricsInv, ReportInv
  <2>6. Metrics!ErrorsIn(r) \subseteq report[r]
    BY <2>1, <2>5 DEF Metrics!Settled, MetricsInv, ReportInv
  <2>7. QED BY <2>5, <2>6
<1>2. QED BY <1>1, MetricsSpecInv, PTL

-----------------------------------------------------------------------------
(* MetricsAggregator *)


Tells(u, k, x) == Prom!On(k, x) \in todo[u]
Offers == prom.Targets \X Prom!Values

PromTypeOK ==
    /\ channel \in Prom!Channels /\ leader \in prom.Units
    /\ present \subseteq prom.Targets /\ offer \in [prom.Targets -> Prom!Values \cup {None}]
    /\ proms \subseteq prom.Proms /\ view \in [prom.Units -> SUBSET prom.Targets]
    /\ board \in [prom.Proms -> [Prom!Apps -> Seq(SUBSET Offers)]]
    /\ stored \in [prom.Units -> [Prom!Apps -> Seq(SUBSET Offers)]]
    /\ todo \in [prom.Units -> SUBSET Prom!Event]
    /\ used \in [Prom!EnvSteps -> Nat]

\* What a unit has yet to hear makes up the difference between what it sees
\* and what there is.
EventsInv ==
    \A u \in prom.Units, x \in prom.Targets :
        /\ Tells(u, "joined", x) => Tells(u, "changed", x) /\ x \notin view[u]
        /\ Tells(u, "changed", x) => x \in present
        /\ Tells(u, "departed", x) => x \in view[u] /\ x \notin present
        /\ x \in view[u] => x \in present \/ Tells(u, "departed", x)
        /\ x \in present => x \in view[u] \/ Tells(u, "joined", x)

\* Targets about which the leader has nothing to hear.
Clean ==
    {x \in view[leader] : /\ offer[x] # None
                          /\ ~Tells(leader, "changed", x) /\ ~Tells(leader, "departed", x)}

\* The jobs, or groups, that may stand in a list of application a: of targets
\* the leader sees, of all those that are clean, at what they publish.
Fit(a) ==
    {S \in SUBSET Offers :
        /\ S # {}
        /\ \A i \in S : i[1] \in view[leader] /\ prom.AppOf[i[1]] = a /\ offer[i[1]] # None
        /\ \A x \in Clean : prom.AppOf[x] = a =>
              /\ <<x, offer[x]>> \in S
              /\ channel = "jobs" => \A i \in S : i[1] = x => i[2] = offer[x]}

Steady == used["leader"] = 0 /\ used["unrelate"] = 0

FitInv == \A a \in Prom!Apps : /\ stored[leader][a] \in Seq(Fit(a))
                               /\ \A p \in proms : board[p][a] \in Seq(Fit(a))

\* StoredState remembers an application only as long as some list does.
StoredInv == \A a \in Prom!Apps :
    stored[leader][a] # <<>> => \E p \in proms : board[p][a] # <<>>

\* No list lacks an application with a clean target.
GivenInv == \A p \in proms, x \in Clean :
    ~Tells(leader, "prometheus", p) => board[p][prom.AppOf[x]] # <<>>

ListsInv == Steady => FitInv /\ StoredInv /\ GivenInv

PromInv == PromTypeOK /\ EventsInv /\ ListsInv

-----------------------------------------------------------------------------
(* The operators on lists *)

LEMMA SeqWidens ==
    ASSUME NEW R, NEW Q, NEW l \in Seq(R), R \subseteq Q
    PROVE  l \in Seq(Q)
<1>1. Len(l) \in Nat /\ l \in [1..Len(l) -> R] BY LenProperties
<1>2. l \in [1..Len(l) -> Q] BY <1>1
<1>3. QED BY <1>1, <1>2, SeqDef

LEMMA Single == ASSUME NEW R, NEW S \in R PROVE <<S>> \in Seq(R) /\ <<S>> # <<>>
OBVIOUS

\* What set_target_job_data and set_alert_rule_data leave.
LEMMA SetFits ==
    ASSUME NEW R, NEW Q, NEW l \in Seq(R), NEW I \in Q,
           channel = "jobs" \/ \A S \in R : S \cup I \in Q
    PROVE  Prom!Set(l, I) \in Seq(Q) /\ Prom!Set(l, I) # <<>>
<1>1. CASE channel = "jobs" \/ l = <<>>
  BY <1>1, Single DEF Prom!Set
<1>2. CASE channel # "jobs" /\ l # <<>>
  <2>1. DOMAIN l = 1..Len(l) /\ Len(l) \in Nat /\ Len(l) # 0
        /\ \A i \in 1..Len(l) : l[i] \in R
    BY <1>2
  <2>2. Prom!Set(l, I) = [i \in 1..Len(l) |-> l[i] \cup I] BY <1>2, <2>1 DEF Prom!Set
  <2>3. Prom!Set(l, I) \in [1..Len(l) -> Q] BY <1>2, <2>1, <2>2
  <2>4. Prom!Set(l, I) \in Seq(Q) BY <2>1, <2>3, SeqDef
  <2>5. DOMAIN Prom!Set(l, I) = 1..Len(l) /\ 1 \in 1..Len(l) BY <2>1, <2>2
  <2>6. QED BY <2>4, <2>5
<1>3. QED BY <1>1, <1>2

\* What remove_prometheus_jobs and remove_alert_rules leave.
LEMMA RemovedFits ==
    ASSUME NEW R, NEW Q, NEW l \in Seq(R), NEW x,
           \A S \in R : LET kept == {i \in S : i[1] # x} IN kept # {} => kept \in Q
    PROVE  /\ Prom!Removed(l, x) \in Seq(Q)
           /\ l # <<>> /\ (\A S \in R : \E i \in S : i[1] # x) => Prom!Removed(l, x) # <<>>
<1>1. CASE l = <<>> BY <1>1 DEF Prom!Removed
<1>2. CASE l # <<>>
  <2> DEFINE kept == {i \in l[1] : i[1] # x}
  <2>1. l[1] \in R BY <1>2
  <2>2. Prom!Removed(l, x) = IF kept = {} THEN <<>> ELSE <<kept>> BY <1>2 DEF Prom!Removed
  <2>3. kept # {} => kept \in Q BY <2>1
  <2> HIDE DEF kept
  <2>4. Prom!Removed(l, x) \in Seq(Q) BY <2>2, <2>3, Single
  <2>5. (\A S \in R : \E i \in S : i[1] # x) => kept # {} BY <2>1 DEF kept
  <2>6. QED BY <2>2, <2>4, <2>5
<1>3. QED BY <1>1, <1>2

LEMMA JoinedFits ==
    ASSUME NEW R, NEW l \in Seq(R), NEW m \in Seq(R)
    PROVE  l \o m \in Seq(R) /\ (l # <<>> \/ m # <<>> => l \o m # <<>>)
BY ConcatProperties

-----------------------------------------------------------------------------
(* Events *)

LEMMA Kinds ==
    ASSUME NEW e \in Prom!Event
    PROVE  /\ e = Prom!On(e.kind, e.about)
           /\ \/ e.kind \in {"joined", "changed", "departed"} /\ e.about \in prom.Targets
              \/ e.kind = "prometheus" /\ e.about \in prom.Proms
BY DEF Prom!Event, Prom!On

LEMMA OnIsOne ==
    ASSUME NEW j, NEW x, NEW k, NEW y
    PROVE  Prom!On(j, x) = Prom!On(k, y) <=> j = k /\ x = y
<1>1. Prom!On(j, x).kind = j /\ Prom!On(j, x).about = x /\ Prom!On(k, y).kind = k /\ Prom!On(k, y).about = y
  BY DEF Prom!On
<1>2. QED BY <1>1

LEMMA PromSpendTyped ==
    ASSUME PromTypeOK, NEW k \in Prom!EnvSteps, Prom!Spend(k)
    PROVE  /\ used' \in [Prom!EnvSteps -> Nat] /\ used'[k] # 0
           /\ \A j \in Prom!EnvSteps : used'[j] = 0 => used[j] = 0
<1>1. used' = [used EXCEPT ![k] = used[k] + 1, !["all"] = used["all"] + 1]
  BY DEF Prom!Spend
<1>2. used \in [Prom!EnvSteps -> Nat] /\ "all" \in Prom!EnvSteps BY DEF PromTypeOK, Prom!EnvSteps
<1>3. \A j \in Prom!EnvSteps : used'[j] \in {used[j], used[j] + 1, used[j] + 2}
  BY <1>1, <1>2
<1>4. used'[k] # used[k] /\ used'[k] \in {used[k] + 1, used[k] + 2}
  BY <1>1, <1>2
<1>5. \A j \in Prom!EnvSteps : used[j] \in Nat BY <1>2
<1>6. used' \in [Prom!EnvSteps -> Nat] BY <1>1, <1>2
<1>7. QED BY <1>3, <1>4, <1>5, <1>6

\* Only a step that moves the leader or removes a relation ends the quiet times.
LEMMA SteadyBefore ==
    ASSUME PromTypeOK, NEW k \in Prom!EnvSteps, Prom!Spend(k), Steady'
    PROVE  Steady /\ k \notin {"leader", "unrelate"}
<1>1. "leader" \in Prom!EnvSteps /\ "unrelate" \in Prom!EnvSteps BY DEF Prom!EnvSteps
<1>2. QED BY <1>1, PromSpendTyped DEF Steady

LEMMA ItemsTyped ==
    ASSUME PromTypeOK, NEW V \in SUBSET prom.Targets, NEW a
    PROVE  Prom!Items(V, a) \in SUBSET Offers
BY DEF Prom!Items, PromTypeOK, Offers

\* A hook takes its event, and moves what the unit sees accordingly.
LEMMA HookTakes ==
    ASSUME PromTypeOK, NEW u \in prom.Units, NEW e \in Prom!Event, Prom!Handle(u, e)
    PROVE  /\ todo' \in [prom.Units -> SUBSET Prom!Event] /\ view' \in [prom.Units -> SUBSET prom.Targets]
           /\ \A v \in prom.Units : v # u => todo'[v] = todo[v] /\ view'[v] = view[v]
           /\ todo'[u] = todo[u] \ {e}
           /\ view'[u] = CASE e.kind = "joined" -> view[u] \cup {e.about}
                           [] e.kind = "departed" -> view[u] \ {e.about}
                           [] OTHER -> view[u]
           /\ e \in todo[u]
           /\ UNCHANGED <<leader, channel, present, offer, proms, used>>
<1>1. todo \in [prom.Units -> SUBSET Prom!Event] /\ view \in [prom.Units -> SUBSET prom.Targets]
  BY DEF PromTypeOK
<1>2. /\ e \in todo[u]
      /\ todo' = [todo EXCEPT ![u] = todo[u] \ {e}]
      /\ view' = [view EXCEPT ![u] = CASE e.kind = "joined" -> view[u] \cup {e.about}
                                       [] e.kind = "departed" -> view[u] \ {e.about}
                                       [] OTHER -> view[u]]
      /\ UNCHANGED <<leader, channel, present, offer, proms, used>>
  BY DEF Prom!Handle, Prom!targets
<1>3. e.kind = "joined" => e.about \in prom.Targets BY Kinds
<1>4. QED BY <1>1, <1>2, <1>3

-----------------------------------------------------------------------------
(* What the hooks write *)

\* relation_changed of target x.
LEMMA ChangedWrites ==
    ASSUME PromTypeOK, NEW u \in prom.Units, NEW x \in prom.Targets, NEW V \in SUBSET prom.Targets,
           Prom!Changed(u, x, V)
    PROVE  \/ /\ leader # u \/ Prom!Items(V, prom.AppOf[x]) = {} \/ proms = {}
              /\ UNCHANGED <<board, stored>>
           \/ /\ leader = u /\ Prom!Items(V, prom.AppOf[x]) # {}
              /\ board' = [p \in prom.Proms |->
                   IF p \in proms
                     THEN [board[p] EXCEPT ![prom.AppOf[x]] = Prom!Set(board[p][prom.AppOf[x]], Prom!Items(V, prom.AppOf[x]))]
                     ELSE board[p]]
              /\ \E p \in proms : stored' = [stored EXCEPT ![u] = board'[p]]
<1> DEFINE a == prom.AppOf[x]
           P == IF Prom!Items(V, a) = {} THEN {} ELSE proms
           lists == [p \in P |-> [board[p] EXCEPT ![a] = Prom!Set(board[p][a], Prom!Items(V, a))]]
<1>1. Prom!Rewrite(u, lists) BY DEF Prom!Changed
<1>2. DOMAIN lists = P /\ \A p \in P : lists[p] = [board[p] EXCEPT ![a] = Prom!Set(board[p][a], Prom!Items(V, a))]
  OBVIOUS
<1>3. proms \subseteq prom.Proms BY DEF PromTypeOK
<1> HIDE DEF lists
<1>4. CASE leader # u \/ P = {}
  BY <1>1, <1>2, <1>4 DEF Prom!Rewrite
<1>5. CASE leader = u /\ P # {}
  <2>1. P = proms /\ Prom!Items(V, a) # {} BY <1>5
  <2>2. /\ board' = [p \in prom.Proms |-> IF p \in P THEN lists[p] ELSE board[p]]
        /\ \E p \in P : stored' = [stored EXCEPT ![u] = lists[p]]
    BY <1>1, <1>2, <1>5 DEF Prom!Rewrite
  <2>3. \A p \in P : board'[p] = lists[p] BY <2>1, <2>2, <1>3
  <2>4. board' = [p \in prom.Proms |->
                   IF p \in proms
                     THEN [board[p] EXCEPT ![a] = Prom!Set(board[p][a], Prom!Items(V, a))]
                     ELSE board[p]]
    BY <2>1, <2>2, <1>2
  <2>5. \E p \in proms : stored' = [stored EXCEPT ![u] = board'[p]]
    BY <2>1, <2>2, <2>3
  <2>6. QED BY <1>5, <2>1, <2>4, <2>5
<1>6. QED BY <1>4, <1>5

\* relation_departed of target x.
LEMMA DepartedWrites ==
    ASSUME PromTypeOK, NEW u \in prom.Units, NEW x \in prom.Targets, Prom!Departed(u, x)
    PROVE  \/ /\ leader # u \/ \A p \in proms : board[p][prom.AppOf[x]] = <<>>
              /\ UNCHANGED <<board, stored>>
           \/ /\ leader = u
              /\ board' = [p \in prom.Proms |->
                   IF p \in proms /\ board[p][prom.AppOf[x]] # <<>>
                     THEN [board[p] EXCEPT ![prom.AppOf[x]] = Prom!Removed(board[p][prom.AppOf[x]], x)]
                     ELSE board[p]]
              /\ \E p \in proms : stored' = [stored EXCEPT ![u] = board'[p]]
<1> DEFINE a == prom.AppOf[x]
           P == {q \in proms : board[q][a] # <<>>}
           lists == [p \in P |-> [board[p] EXCEPT ![a] = Prom!Removed(board[p][a], x)]]
<1>1. Prom!Rewrite(u, lists) BY DEF Prom!Departed
<1>2. DOMAIN lists = P /\ \A p \in P : lists[p] = [board[p] EXCEPT ![a] = Prom!Removed(board[p][a], x)]
  OBVIOUS
<1>3. proms \subseteq prom.Proms BY DEF PromTypeOK
<1> HIDE DEF lists
<1>4. CASE leader # u \/ P = {}
  BY <1>1, <1>2, <1>4 DEF Prom!Rewrite
<1>5. CASE leader = u /\ P # {}
  <2>2. /\ board' = [p \in prom.Proms |-> IF p \in P THEN lists[p] ELSE board[p]]
        /\ \E p \in P : stored' = [stored EXCEPT ![u] = lists[p]]
    BY <1>1, <1>2, <1>5 DEF Prom!Rewrite
  <2>3. \A p \in P : board'[p] = lists[p] BY <2>2, <1>3
  <2>4. board' = [p \in prom.Proms |->
                   IF p \in proms /\ board[p][a] # <<>>
                     THEN [board[p] EXCEPT ![a] = Prom!Removed(board[p][a], x)]
                     ELSE board[p]]
    BY <2>2, <1>2
  <2>5. \E p \in proms : stored' = [stored EXCEPT ![u] = board'[p]]
    BY <2>2, <2>3
  <2>6. QED BY <1>5, <2>4, <2>5
<1>6. QED BY <1>4, <1>5

-----------------------------------------------------------------------------
(* Types *)

LEMMA HookTyped ==
    ASSUME PromTypeOK, NEW u \in prom.Units, NEW e \in Prom!Event, Prom!Handle(u, e)
    PROVE  PromTypeOK'
<1> DEFINE Lists == [Prom!Apps -> Seq(SUBSET Offers)]
<1>1. /\ todo' \in [prom.Units -> SUBSET Prom!Event] /\ view' \in [prom.Units -> SUBSET prom.Targets]
      /\ UNCHANGED <<leader, channel, present, offer, proms, used>>
  BY HookTakes
<1>2. /\ view[u] \in SUBSET prom.Targets /\ board \in [prom.Proms -> Lists] /\ stored \in [prom.Units -> Lists]
      /\ proms \subseteq prom.Proms
  BY DEF PromTypeOK
<1>3. board' \in [prom.Proms -> Lists] /\ stored' \in [prom.Units -> Lists]
  <2>1. CASE e.kind = "changed"
    <3> DEFINE x == e.about
               a == prom.AppOf[x]
               I == Prom!Items(view[u], a)
    <3>1. x \in prom.Targets /\ a \in Prom!Apps BY <2>1, Kinds DEF Prom!Apps
    <3>2. Prom!Changed(u, x, view[u]) BY <2>1 DEF Prom!Handle
    <3>3. I \in SUBSET Offers BY <1>2, ItemsTyped
    <3>4. \A p \in prom.Proms : Prom!Set(board[p][a], I) \in Seq(SUBSET Offers)
      <4>1. TAKE p \in prom.Proms
      <4>2. board[p][a] \in Seq(SUBSET Offers) BY <1>2, <3>1
      <4>3. \A S \in SUBSET Offers : S \cup I \in SUBSET Offers BY <3>3
      <4> HIDE DEF I
      <4>4. QED BY <3>3, <4>2, <4>3, SetFits
    <3> HIDE DEF I, a, x
    <3>5. \A p \in prom.Proms : [board[p] EXCEPT ![a] = Prom!Set(board[p][a], I)] \in Lists
      BY <1>2, <3>1, <3>4
    <3>6. \/ UNCHANGED <<board, stored>>
          \/ /\ board' = [p \in prom.Proms |->
                   IF p \in proms THEN [board[p] EXCEPT ![a] = Prom!Set(board[p][a], I)]
                                  ELSE board[p]]
             /\ \E p \in proms : stored' = [stored EXCEPT ![u] = board'[p]]
      BY <1>2, <3>1, <3>2, ChangedWrites DEF I, a
    <3> HIDE DEF Lists
    <3>7. CASE UNCHANGED <<board, stored>> BY <3>7, <1>2
    <3>8. CASE /\ board' = [p \in prom.Proms |->
                   IF p \in proms THEN [board[p] EXCEPT ![a] = Prom!Set(board[p][a], I)]
                                  ELSE board[p]]
               /\ \E p \in proms : stored' = [stored EXCEPT ![u] = board'[p]]
      <4>1. board' \in [prom.Proms -> Lists] BY <3>8, <3>5, <1>2
      <4>2. \A p \in proms : board'[p] \in Lists BY <4>1, <1>2
      <4>3. QED BY <3>8, <4>1, <4>2, <1>2
    <3>9. QED BY <3>6, <3>7, <3>8
  <2>2. CASE e.kind = "departed"
    <3> DEFINE x == e.about
               a == prom.AppOf[x]
    <3>1. x \in prom.Targets /\ a \in Prom!Apps BY <2>2, Kinds DEF Prom!Apps
    <3>2. Prom!Departed(u, x) BY <2>2 DEF Prom!Handle
    <3>4. \A p \in prom.Proms : Prom!Removed(board[p][a], x) \in Seq(SUBSET Offers)
      <4>1. TAKE p \in prom.Proms
      <4>2. board[p][a] \in Seq(SUBSET Offers) BY <1>2, <3>1
      <4>3. \A S \in SUBSET Offers : {i \in S : i[1] # x} \in SUBSET Offers OBVIOUS
      <4>4. QED BY <4>2, <4>3, RemovedFits
    <3> HIDE DEF a, x
    <3>5. \A p \in prom.Proms : [board[p] EXCEPT ![a] = Prom!Removed(board[p][a], x)] \in Lists
      BY <1>2, <3>1, <3>4
    <3>6. \/ UNCHANGED <<board, stored>>
          \/ /\ board' = [p \in prom.Proms |->
                   IF p \in proms /\ board[p][a] # <<>>
                     THEN [board[p] EXCEPT ![a] = Prom!Removed(board[p][a], x)]
                     ELSE board[p]]
             /\ \E p \in proms : stored' = [stored EXCEPT ![u] = board'[p]]
      BY <1>2, <3>1, <3>2, DepartedWrites DEF a
    <3> HIDE DEF Lists
    <3>7. CASE UNCHANGED <<board, stored>> BY <3>7, <1>2
    <3>8. CASE /\ board' = [p \in prom.Proms |->
                   IF p \in proms /\ board[p][a] # <<>>
                     THEN [board[p] EXCEPT ![a] = Prom!Removed(board[p][a], x)]
                     ELSE board[p]]
               /\ \E p \in proms : stored' = [stored EXCEPT ![u] = board'[p]]
      <4>1. board' \in [prom.Proms -> Lists] BY <3>8, <3>5, <1>2
      <4>2. \A p \in proms : board'[p] \in Lists BY <4>1, <1>2
      <4>3. QED BY <3>8, <4>1, <4>2, <1>2
    <3>9. QED BY <3>6, <3>7, <3>8
  <2>3. CASE e.kind = "prometheus"
    <3> DEFINE p == e.about
               Fresh(a) == IF Prom!Items(view[u], a) = {} THEN <<>> ELSE <<Prom!Items(view[u], a)>>
    <3>1. p \in prom.Proms BY <2>3, Kinds
    <3>2. Prom!SetPrometheusData(u, p, view[u]) BY <2>3 DEF Prom!Handle
    <3>3. \A a \in Prom!Apps : Fresh(a) \in Seq(SUBSET Offers)
      <4>1. TAKE a \in Prom!Apps
      <4>2. Prom!Items(view[u], a) \in SUBSET Offers BY <1>2, ItemsTyped
      <4>3. <<Prom!Items(view[u], a)>> \in Seq(SUBSET Offers) BY <4>2, Single
      <4>4. <<>> \in Seq(SUBSET Offers) OBVIOUS
      <4>5. Fresh(a) = <<>> \/ Fresh(a) = <<Prom!Items(view[u], a)>> OBVIOUS
      <4> HIDE DEF Fresh
      <4>6. QED BY <4>3, <4>4, <4>5
    <3>4. \A a \in Prom!Apps : stored[u][a] \in Seq(SUBSET Offers) BY <1>2
    <3> HIDE DEF Fresh
    <3>5. \A a \in Prom!Apps : stored[u][a] \o Fresh(a) \in Seq(SUBSET Offers)
      BY <3>3, <3>4, JoinedFits
    <3>6. [a \in Prom!Apps |-> stored[u][a] \o Fresh(a)] \in Lists BY <3>5
    <3>7. /\ board' \in {board, [board EXCEPT ![p] = [a \in Prom!Apps |-> stored[u][a] \o Fresh(a)]]}
          /\ stored' = stored
      BY <3>2 DEF Prom!SetPrometheusData, Fresh
    <3> HIDE DEF Lists
    <3>8. QED BY <3>6, <3>7, <1>2, <3>1
  <2>4. CASE e.kind = "joined"
    BY <2>4, <1>2 DEF Prom!Handle
  <2>5. QED BY <2>1, <2>2, <2>3, <2>4, Kinds
<1>4. QED BY <1>1, <1>3 DEF PromTypeOK, Prom!Values, Offers

LEMMA NextTyped == ASSUME Prom!ConstantsOK, PromTypeOK, [Prom!Next]_(Prom!vars) PROVE PromTypeOK'
<1> DEFINE Lists == [Prom!Apps -> Seq(SUBSET Offers)]
<1>1. CASE UNCHANGED Prom!vars BY <1>1 DEF Prom!vars, Prom!targets, PromTypeOK, Prom!Values, Offers
<1>2. ASSUME NEW u \in prom.Units, Prom!LeaderMoves(u) PROVE PromTypeOK'
  <2>1. used' \in [Prom!EnvSteps -> Nat] BY <1>2, PromSpendTyped DEF Prom!LeaderMoves, Prom!EnvSteps
  <2>2. QED BY <1>2, <2>1 DEF Prom!LeaderMoves, Prom!targets, PromTypeOK, Prom!Values, Offers
<1>3. ASSUME NEW u \in prom.Units, NEW e \in Prom!Event, Prom!Handle(u, e) PROVE PromTypeOK'
  BY <1>3, HookTyped
<1>4. \A x \in prom.Targets : {Prom!On("joined", x), Prom!On("changed", x)} \subseteq Prom!Event
                              /\ Prom!On("departed", x) \in Prom!Event
  BY DEF Prom!On, Prom!Event
<1>5. \A p \in prom.Proms : Prom!On("prometheus", p) \in Prom!Event BY DEF Prom!On, Prom!Event
<1>6. ASSUME NEW x \in prom.Targets, Prom!Join(x) PROVE PromTypeOK'
  <2>1. used' \in [Prom!EnvSteps -> Nat] BY <1>6, PromSpendTyped DEF Prom!Join, Prom!EnvSteps
  <2>2. todo' \in [prom.Units -> SUBSET Prom!Event]
    BY <1>4, <1>6 DEF Prom!Join, Prom!Queue, PromTypeOK
  <2>3. QED BY <1>6, <2>1, <2>2 DEF Prom!Join, PromTypeOK, Prom!Values, Offers
<1>7. ASSUME NEW x \in prom.Targets, NEW v \in Prom!Values, Prom!Offer(x, v) PROVE PromTypeOK'
  <2>1. used' \in [Prom!EnvSteps -> Nat] BY <1>7, PromSpendTyped DEF Prom!Offer, Prom!EnvSteps
  <2>2. todo' \in [prom.Units -> SUBSET Prom!Event]
    BY <1>4, <1>7 DEF Prom!Offer, Prom!Queue, PromTypeOK
  <2>3. offer' \in [prom.Targets -> Prom!Values \cup {None}] BY <1>7 DEF Prom!Offer, PromTypeOK
  <2>4. QED BY <1>7, <2>1, <2>2, <2>3 DEF Prom!Offer, PromTypeOK, Prom!Values, Offers
<1>8. ASSUME NEW x \in prom.Targets, Prom!Depart(x) PROVE PromTypeOK'
  <2>1. used' \in [Prom!EnvSteps -> Nat] BY <1>8, PromSpendTyped DEF Prom!Depart, Prom!EnvSteps
  <2>2. todo' \in [prom.Units -> SUBSET Prom!Event] BY <1>4, <1>8 DEF Prom!Depart, PromTypeOK
  <2>3. QED BY <1>8, <2>1, <2>2 DEF Prom!Depart, PromTypeOK, Prom!Values, Offers
<1>9. Prom!Nothing \in Lists BY DEF Prom!Nothing
<1>10. ASSUME NEW p \in prom.Proms, Prom!Relate(p) PROVE PromTypeOK'
  <2>1. used' \in [Prom!EnvSteps -> Nat] BY <1>10, PromSpendTyped DEF Prom!Relate, Prom!EnvSteps
  <2>2. todo' \in [prom.Units -> SUBSET Prom!Event]
    BY <1>5, <1>10 DEF Prom!Relate, Prom!Queue, PromTypeOK
  <2>3. board' \in [prom.Proms -> Lists] BY <1>9, <1>10 DEF Prom!Relate, PromTypeOK
  <2>4. QED
    BY <1>10, <2>1, <2>2, <2>3 DEF Prom!Relate, Prom!targets, PromTypeOK, Prom!Values, Offers
<1>11. ASSUME NEW p \in prom.Proms, Prom!Scale(p) PROVE PromTypeOK'
  <2>1. used' \in [Prom!EnvSteps -> Nat] BY <1>11, PromSpendTyped DEF Prom!Scale, Prom!EnvSteps
  <2>2. todo' \in [prom.Units -> SUBSET Prom!Event]
    BY <1>5, <1>11 DEF Prom!Scale, Prom!Queue, PromTypeOK
  <2>3. QED BY <1>11, <2>1, <2>2 DEF Prom!Scale, Prom!targets, PromTypeOK, Prom!Values, Offers
<1>12. ASSUME NEW p \in prom.Proms, Prom!Unrelate(p) PROVE PromTypeOK'
  <2>1. used' \in [Prom!EnvSteps -> Nat] BY <1>12, PromSpendTyped DEF Prom!Unrelate, Prom!EnvSteps
  <2>2. todo' \in [prom.Units -> SUBSET Prom!Event] BY <1>12 DEF Prom!Unrelate, PromTypeOK
  <2>3. board' \in [prom.Proms -> Lists] BY <1>9, <1>12 DEF Prom!Unrelate, PromTypeOK
  <2>4. QED
    BY <1>12, <2>1, <2>2, <2>3 DEF Prom!Unrelate, Prom!targets, PromTypeOK, Prom!Values, Offers
<1>13. QED
  BY <1>1, <1>2, <1>3, <1>6, <1>7, <1>8, <1>10, <1>11, <1>12 DEF Prom!Next

-----------------------------------------------------------------------------
(* What units hear *)

LEMMA HookHeard ==
    ASSUME PromTypeOK, NEW u \in prom.Units, NEW e \in Prom!Event, Prom!Handle(u, e)
    PROVE  \A v \in prom.Units : \A k, x :
              Tells(v, k, x)' <=> Tells(v, k, x) /\ ~(v = u /\ e = Prom!On(k, x))
BY HookTakes DEF Tells

LEMMA HookEvents ==
    ASSUME PromTypeOK, EventsInv, NEW u \in prom.Units, NEW e \in Prom!Event, Prom!Handle(u, e)
    PROVE  EventsInv'
<1>1. /\ \A v \in prom.Units : v # u => view'[v] = view[v]
      /\ view'[u] = CASE e.kind = "joined" -> view[u] \cup {e.about}
                      [] e.kind = "departed" -> view[u] \ {e.about}
                      [] OTHER -> view[u]
      /\ e \in todo[u] /\ present' = present
  BY HookTakes
<1>2. \A v \in prom.Units : \A k, x :
         Tells(v, k, x)' <=> Tells(v, k, x) /\ ~(v = u /\ e = Prom!On(k, x))
  BY HookHeard
<1>3. e = Prom!On(e.kind, e.about) BY Kinds
<1>4. Tells(u, e.kind, e.about) BY <1>1, <1>3 DEF Tells
<1>5. e.kind = "changed" => ~Tells(u, "joined", e.about) BY DEF Prom!Handle, Tells
<1>6. \A k, x : e = Prom!On(k, x) <=> e.kind = k /\ e.about = x BY <1>3, OnIsOne
<1>7. SUFFICES ASSUME NEW v \in prom.Units, NEW x \in prom.Targets
               PROVE  /\ Tells(v, "joined", x)' => Tells(v, "changed", x)' /\ x \notin view'[v]
                      /\ Tells(v, "changed", x)' => x \in present
                      /\ Tells(v, "departed", x)' => x \in view'[v] /\ x \notin present
                      /\ x \in view'[v] => x \in present \/ Tells(v, "departed", x)'
                      /\ x \in present => x \in view'[v] \/ Tells(v, "joined", x)'
  BY <1>1 DEF EventsInv
<1>8. /\ Tells(v, "joined", x) => Tells(v, "changed", x) /\ x \notin view[v]
      /\ Tells(v, "changed", x) => x \in present
      /\ Tells(v, "departed", x) => x \in view[v] /\ x \notin present
      /\ x \in view[v] => x \in present \/ Tells(v, "departed", x)
      /\ x \in present => x \in view[v] \/ Tells(v, "joined", x)
  BY DEF EventsInv
<1>9. CASE v # u
  BY <1>1, <1>2, <1>8, <1>9
<1>10. CASE v = u
  <2>1. \A k : Tells(u, k, x)' <=> Tells(u, k, x) /\ ~(e.kind = k /\ e.about = x)
    BY <1>2, <1>6
  <2>2. x \in view'[u] <=> \/ x \in view[u] /\ ~(e.kind = "departed" /\ e.about = x)
                           \/ e.kind = "joined" /\ e.about = x
    BY <1>1
  <2>3. e.about = x => Tells(u, e.kind, x) BY <1>4
  <2>4. e.about = x /\ e.kind = "changed" => ~Tells(u, "joined", x) BY <1>5
  <2>5. e.about = x /\ e.kind = "joined" => Tells(u, "joined", x) BY <2>3
  <2>6. e.about = x /\ e.kind = "departed" => Tells(u, "departed", x) BY <2>3
  <2>7. QED BY <1>8, <1>10, <2>1, <2>2, <2>4, <2>5, <2>6
<1>11. QED BY <1>9, <1>10

LEMMA JoinHeard ==
    ASSUME PromTypeOK, NEW x \in prom.Targets, Prom!Join(x)
    PROVE  \A v \in prom.Units : \A k, y :
              Tells(v, k, y)' <=> Tells(v, k, y) \/ (y = x /\ k \in {"joined", "changed"})
<1>1. \A v \in prom.Units : todo'[v] = todo[v] \cup {Prom!On("joined", x), Prom!On("changed", x)}
  BY DEF Prom!Join, Prom!Queue
<1>2. QED BY <1>1, OnIsOne DEF Tells

LEMMA OfferHeard ==
    ASSUME PromTypeOK, NEW x \in prom.Targets, NEW w \in Prom!Values, Prom!Offer(x, w)
    PROVE  \A v \in prom.Units : \A k, y :
              Tells(v, k, y)' <=> Tells(v, k, y) \/ (y = x /\ k = "changed")
<1>1. \A v \in prom.Units : todo'[v] = todo[v] \cup {Prom!On("changed", x)}
  BY DEF Prom!Offer, Prom!Queue
<1>2. QED BY <1>1, OnIsOne DEF Tells

LEMMA DepartHeard ==
    ASSUME PromTypeOK, NEW x \in prom.Targets, Prom!Depart(x)
    PROVE  \A v \in prom.Units : \A k, y :
              Tells(v, k, y)' <=> \/ Tells(v, k, y) /\ ~(y = x /\ k \in {"joined", "changed"})
                                  \/ x \in view[v] /\ y = x /\ k = "departed"
<1>1. \A v \in prom.Units : todo'[v] = (todo[v] \ {Prom!On("joined", x), Prom!On("changed", x)})
                                         \cup (IF x \in view[v] THEN {Prom!On("departed", x)} ELSE {})
  BY DEF Prom!Depart
<1>2. QED BY <1>1, OnIsOne DEF Tells

LEMMA PrometheusHeard ==
    ASSUME PromTypeOK, NEW p \in prom.Proms, Prom!Relate(p) \/ Prom!Scale(p)
    PROVE  \A v \in prom.Units : \A k, y :
              Tells(v, k, y)' <=> Tells(v, k, y) \/ (y = p /\ k = "prometheus")
<1>1. \A v \in prom.Units : todo'[v] = todo[v] \cup {Prom!On("prometheus", p)}
  BY DEF Prom!Relate, Prom!Scale, Prom!Queue
<1>2. QED BY <1>1, OnIsOne DEF Tells

LEMMA NextEvents == ASSUME PromTypeOK, EventsInv, [Prom!Next]_(Prom!vars) PROVE EventsInv'
<1>1. CASE UNCHANGED Prom!vars BY <1>1 DEF Prom!vars, Prom!targets, EventsInv, Tells
<1>2. ASSUME NEW u \in prom.Units, Prom!LeaderMoves(u) PROVE EventsInv'
  BY <1>2 DEF Prom!LeaderMoves, Prom!targets, EventsInv, Tells
<1>3. ASSUME NEW u \in prom.Units, NEW e \in Prom!Event, Prom!Handle(u, e) PROVE EventsInv'
  BY <1>3, HookEvents
<1>4. ASSUME NEW x \in prom.Targets, Prom!Join(x) PROVE EventsInv'
  <2>1. /\ x \notin present /\ \A u \in prom.Units : x \notin view[u]
        /\ present' = present \cup {x} /\ view' = view
    BY <1>4 DEF Prom!Join
  <2>2. \A v \in prom.Units : \A k, y :
           Tells(v, k, y)' <=> Tells(v, k, y) \/ (y = x /\ k \in {"joined", "changed"})
    BY <1>4, JoinHeard
  <2>3. QED BY <2>1, <2>2 DEF EventsInv
<1>5. ASSUME NEW x \in prom.Targets, NEW w \in Prom!Values, Prom!Offer(x, w) PROVE EventsInv'
  <2>1. x \in present /\ present' = present /\ view' = view
    BY <1>5 DEF Prom!Offer
  <2>2. \A v \in prom.Units : \A k, y :
           Tells(v, k, y)' <=> Tells(v, k, y) \/ (y = x /\ k = "changed")
    BY <1>5, OfferHeard
  <2>3. QED BY <2>1, <2>2 DEF EventsInv
<1>6. ASSUME NEW x \in prom.Targets, Prom!Depart(x) PROVE EventsInv'
  <2>1. x \in present /\ present' = present \ {x} /\ view' = view
    BY <1>6 DEF Prom!Depart
  <2>2. \A v \in prom.Units : \A k, y :
           Tells(v, k, y)' <=> \/ Tells(v, k, y) /\ ~(y = x /\ k \in {"joined", "changed"})
                               \/ x \in view[v] /\ y = x /\ k = "departed"
    BY <1>6, DepartHeard
  <2>3. QED BY <2>1, <2>2 DEF EventsInv
<1>7. ASSUME NEW p \in prom.Proms, Prom!Relate(p) \/ Prom!Scale(p) PROVE EventsInv'
  <2>1. present' = present /\ view' = view BY <1>7 DEF Prom!Relate, Prom!Scale, Prom!targets
  <2>2. \A v \in prom.Units : \A k, y :
           Tells(v, k, y)' <=> Tells(v, k, y) \/ (y = p /\ k = "prometheus")
    BY <1>7, PrometheusHeard
  <2>3. QED BY <2>1, <2>2 DEF EventsInv
<1>8. ASSUME NEW p \in prom.Proms, Prom!Unrelate(p) PROVE EventsInv'
  <2>1. /\ present' = present /\ view' = view
        /\ \A v \in prom.Units : todo'[v] = todo[v] \ {Prom!On("prometheus", p)}
    BY <1>8 DEF Prom!Unrelate, Prom!targets
  <2>2. \A v \in prom.Units : \A k, y :
           Tells(v, k, y)' <=> Tells(v, k, y) /\ ~(y = p /\ k = "prometheus")
    BY <2>1, OnIsOne DEF Tells
  <2>3. QED BY <2>1, <2>2 DEF EventsInv
<1>9. QED BY <1>1, <1>2, <1>3, <1>4, <1>5, <1>6, <1>7, <1>8 DEF Prom!Next

-----------------------------------------------------------------------------
(* Steps that write no list *)

LEMMA FitKept ==
    ASSUME PromTypeOK, NEW a, UNCHANGED <<leader, channel>>,
           \A x \in view[leader] : prom.AppOf[x] = a => x \in view'[leader],
           \A x \in prom.Targets : offer[x] # None => offer'[x] # None,
           \A x \in Clean' : prom.AppOf[x] = a => x \in Clean /\ offer'[x] = offer[x]
    PROVE  Fit(a) \subseteq Fit(a)'
<1>1. Offers' = Offers BY DEF Offers, Prom!Values
<1>2. SUFFICES ASSUME NEW S \in Fit(a) PROVE S \in Fit(a)' OBVIOUS
<1>3. /\ S \in SUBSET Offers /\ S # {}
      /\ \A i \in S : i[1] \in view[leader] /\ prom.AppOf[i[1]] = a /\ offer[i[1]] # None
      /\ \A x \in Clean : prom.AppOf[x] = a =>
            /\ <<x, offer[x]>> \in S
            /\ channel = "jobs" => \A i \in S : i[1] = x => i[2] = offer[x]
  BY DEF Fit
<1>4. \A i \in S : i[1] \in prom.Targets BY <1>3 DEF Offers
<1>5. \A i \in S : i[1] \in view'[leader] /\ prom.AppOf[i[1]] = a /\ offer'[i[1]] # None
  BY <1>3, <1>4
<1>6. \A x \in Clean' : prom.AppOf[x] = a =>
            /\ <<x, offer'[x]>> \in S
            /\ channel = "jobs" => \A i \in S : i[1] = x => i[2] = offer'[x]
  BY <1>3
<1>7. QED BY <1>1, <1>3, <1>5, <1>6 DEF Fit

\* Nothing is written: what stands in the lists still fits, or nothing stands
\* there; and no target becomes clean, or there is no list it would be missing in.
LEMMA ListsKept ==
    ASSUME PromTypeOK, ListsInv, Steady' => Steady, leader' = leader, stored' = stored,
           proms \subseteq proms', proms' \subseteq prom.Proms,
           \A p \in proms : board'[p] = board[p],
           \A p \in proms' \ proms : board'[p] = Prom!Nothing /\ Tells(leader, "prometheus", p)',
           \A p \in proms : Tells(leader, "prometheus", p) => Tells(leader, "prometheus", p)',
           Steady => \A a \in Prom!Apps :
              \/ Fit(a) \subseteq Fit(a)'
              \/ stored[leader][a] = <<>> /\ \A p \in proms : board[p][a] = <<>>,
           \A x \in Clean' : x \in Clean \/ proms' = {}
    PROVE  ListsInv'
<1>1. SUFFICES ASSUME Steady' PROVE FitInv' /\ StoredInv' /\ GivenInv' BY DEF ListsInv
<1>2. FitInv /\ StoredInv /\ GivenInv BY <1>1 DEF ListsInv
<1>3. FitInv'
  <2>1. ASSUME NEW a \in Prom!Apps
        PROVE  /\ stored'[leader][a] \in Seq(Fit(a)')
               /\ \A p \in proms' : board'[p][a] \in Seq(Fit(a)')
    <3>1. /\ stored[leader][a] \in Seq(Fit(a))
          /\ \A p \in proms : board[p][a] \in Seq(Fit(a))
      BY <1>2 DEF FitInv
    <3>2. Prom!Nothing[a] = <<>> BY DEF Prom!Nothing
    <3>3. <<>> \in Seq(Fit(a)') OBVIOUS
    <3>4. CASE Fit(a) \subseteq Fit(a)'
      <4>1. Seq(Fit(a)) \subseteq Seq(Fit(a)') BY <3>4, SeqWidens
      <4>2. QED BY <3>1, <3>2, <3>3, <4>1
    <3>5. CASE stored[leader][a] = <<>> /\ \A p \in proms : board[p][a] = <<>>
      BY <3>2, <3>3, <3>5
    <3>6. QED BY <3>4, <3>5, <1>1
  <2>2. Prom!Apps' = Prom!Apps BY DEF Prom!Apps
  <2>3. QED BY <2>1, <2>2 DEF FitInv
<1>4. StoredInv' BY <1>2 DEF StoredInv, Prom!Apps
<1>5. GivenInv' BY <1>2 DEF GivenInv
<1>6. QED BY <1>3, <1>4, <1>5

LEMMA CleanIsTarget == ASSUME PromTypeOK
                       PROVE Clean \subseteq prom.Targets /\ view[leader] \subseteq prom.Targets
BY DEF Clean, PromTypeOK

\* What the leader does not hear of leaves the lists right.
LEMMA OthersKeep ==
    ASSUME PromTypeOK, ListsInv, NEW u \in prom.Units, u # leader,
           NEW e \in Prom!Event, Prom!Handle(u, e)
    PROVE  ListsInv'
<1>1. /\ todo'[leader] = todo[leader] /\ view'[leader] = view[leader]
      /\ UNCHANGED <<leader, channel, present, offer, proms, used>>
  BY HookTakes DEF PromTypeOK
<1>2. UNCHANGED <<board, stored>>
  <2>1. CASE e.kind = "changed"
    BY <2>1, Kinds, ChangedWrites DEF Prom!Handle, PromTypeOK
  <2>2. CASE e.kind = "departed"
    BY <2>2, Kinds, DepartedWrites DEF Prom!Handle, PromTypeOK
  <2>3. CASE e.kind = "prometheus"
    BY <2>3 DEF Prom!Handle, Prom!SetPrometheusData
  <2>4. CASE e.kind = "joined"
    BY <2>4 DEF Prom!Handle
  <2>5. QED BY <2>1, <2>2, <2>3, <2>4, Kinds
<1>3. Clean' = Clean BY <1>1 DEF Clean, Tells
<1>4. \A a : Fit(a)' = Fit(a) BY <1>1, <1>3 DEF Fit, Offers, Prom!Values
<1>5. \A p : Tells(leader, "prometheus", p)' = Tells(leader, "prometheus", p)
  BY <1>1 DEF Tells
<1>6. Steady' = Steady BY <1>1 DEF Steady
<1>7. proms \subseteq prom.Proms BY DEF PromTypeOK
<1>8. QED BY <1>1, <1>2, <1>3, <1>4, <1>5, <1>6, <1>7, ListsKept

\* A new target has its relation_changed hook to come.
LEMMA JoinKeeps ==
    ASSUME PromTypeOK, ListsInv, NEW x \in prom.Targets, Prom!Join(x)
    PROVE  ListsInv'
<1>1. UNCHANGED <<leader, channel, offer, proms, view, board, stored>> BY DEF Prom!Join
<1>2. \A v \in prom.Units : \A k, y :
         Tells(v, k, y)' <=> Tells(v, k, y) \/ (y = x /\ k \in {"joined", "changed"})
  BY JoinHeard
<1>3. leader \in prom.Units /\ proms \subseteq prom.Proms BY DEF PromTypeOK
<1>4. \A y \in Clean' : y \in Clean BY <1>1, <1>2, <1>3 DEF Clean
<1>5. \A a : Fit(a) \subseteq Fit(a)' BY <1>1, <1>4, FitKept
<1>6. Steady' => Steady BY SteadyBefore DEF Prom!Join, Prom!EnvSteps
<1>7. QED BY <1>1, <1>2, <1>3, <1>4, <1>5, <1>6, ListsKept

\* So has one that publishes something else.
LEMMA OfferKeeps ==
    ASSUME Prom!ConstantsOK, PromTypeOK, ListsInv, NEW x \in prom.Targets,
           NEW w \in Prom!Values, Prom!Offer(x, w)
    PROVE  ListsInv'
<1>1. /\ UNCHANGED <<leader, channel, proms, view, board, stored>>
      /\ offer' = [offer EXCEPT ![x] = w]
  BY DEF Prom!Offer
<1>2. \A v \in prom.Units : \A k, y :
         Tells(v, k, y)' <=> Tells(v, k, y) \/ (y = x /\ k = "changed")
  BY OfferHeard
<1>3. leader \in prom.Units /\ proms \subseteq prom.Proms /\ offer \in [prom.Targets -> Prom!Values \cup {None}]
  BY DEF PromTypeOK
<1>4. w # None BY DEF Prom!ConstantsOK, Prom!Values
<1>5. \A y \in prom.Targets : y # x => offer'[y] = offer[y] BY <1>1, <1>3
<1>6. \A y \in Clean' : y \in Clean /\ y # x
  <2>1. SUFFICES ASSUME NEW y \in Clean' PROVE y \in Clean /\ y # x OBVIOUS
  <2>2. /\ y \in view'[leader'] /\ offer'[y] # None
        /\ ~Tells(leader, "changed", y)' /\ ~Tells(leader, "departed", y)'
    BY <2>1 DEF Clean
  <2>3. y # x /\ ~Tells(leader, "changed", y) /\ ~Tells(leader, "departed", y)
    BY <1>1, <1>2, <1>3, <2>2
  <2>4. y \in prom.Targets BY <1>1, <2>2 DEF PromTypeOK
  <2>5. QED BY <1>1, <1>5, <2>2, <2>3, <2>4 DEF Clean
<1>7. Clean \subseteq prom.Targets BY CleanIsTarget
<1>8. \A y \in prom.Targets : offer[y] # None => offer'[y] # None BY <1>1, <1>3, <1>4
<1>9. \A a : Fit(a) \subseteq Fit(a)' BY <1>1, <1>5, <1>6, <1>7, <1>8, FitKept
<1>10. Steady' => Steady BY SteadyBefore DEF Prom!Offer, Prom!EnvSteps
<1>11. QED BY <1>1, <1>2, <1>3, <1>6, <1>9, <1>10, ListsKept

LEMMA DepartKeeps ==
    ASSUME PromTypeOK, EventsInv, ListsInv, NEW x \in prom.Targets, Prom!Depart(x)
    PROVE  ListsInv'
<1>1. UNCHANGED <<leader, channel, offer, proms, view, board, stored>> BY DEF Prom!Depart
<1>2. \A v \in prom.Units : \A k, y :
         Tells(v, k, y)' <=> \/ Tells(v, k, y) /\ ~(y = x /\ k \in {"joined", "changed"})
                             \/ x \in view[v] /\ y = x /\ k = "departed"
  BY DepartHeard
<1>3. leader \in prom.Units /\ proms \subseteq prom.Proms BY DEF PromTypeOK
<1>4. \A y \in Clean' : y \in Clean BY <1>1, <1>2, <1>3 DEF Clean
<1>5. \A a : Fit(a) \subseteq Fit(a)' BY <1>1, <1>4, FitKept
<1>6. Steady' => Steady BY SteadyBefore DEF Prom!Depart, Prom!EnvSteps
<1>7. QED BY <1>1, <1>2, <1>3, <1>4, <1>5, <1>6, ListsKept

\* A new Prometheus relation has its own hook to come.
LEMMA RelateKeeps ==
    ASSUME PromTypeOK, ListsInv, NEW p \in prom.Proms, Prom!Relate(p) \/ Prom!Scale(p)
    PROVE  ListsInv'
<1>1. /\ UNCHANGED <<leader, channel, offer, view, stored>>
      /\ proms \subseteq proms' /\ proms' \subseteq proms \cup {p}
      /\ \A q \in proms : board'[q] = board[q]
      /\ \A q \in proms' \ proms : q = p /\ board'[q] = Prom!Nothing
  <2>1. CASE Prom!Relate(p) BY <2>1 DEF Prom!Relate, Prom!targets, PromTypeOK
  <2>2. CASE Prom!Scale(p) BY <2>2 DEF Prom!Scale, Prom!targets
  <2>3. QED BY <2>1, <2>2
<1>2. \A v \in prom.Units : \A k, y :
         Tells(v, k, y)' <=> Tells(v, k, y) \/ (y = p /\ k = "prometheus")
  BY PrometheusHeard
<1>3. leader \in prom.Units /\ proms \subseteq prom.Proms BY DEF PromTypeOK
<1>4. \A y \in Clean' : y \in Clean BY <1>1, <1>2, <1>3 DEF Clean
<1>5. \A a : Fit(a) \subseteq Fit(a)' BY <1>1, <1>4, FitKept
<1>6. Steady' => Steady BY SteadyBefore DEF Prom!Relate, Prom!Scale, Prom!EnvSteps
<1>7. QED BY <1>1, <1>2, <1>3, <1>4, <1>5, <1>6, ListsKept

\* A target that the leader comes to see has its relation_changed hook to come.
LEMMA JoinedKeeps ==
    ASSUME PromTypeOK, EventsInv, ListsInv,
           NEW e \in Prom!Event, Prom!Handle(leader, e), e.kind = "joined"
    PROVE  ListsInv'
<1>1. leader \in prom.Units /\ proms \subseteq prom.Proms BY DEF PromTypeOK
<1>2. /\ view'[leader] = view[leader] \cup {e.about} /\ e \in todo[leader]
      /\ UNCHANGED <<leader, channel, present, offer, proms, used>>
  BY <1>1, HookTakes
<1>3. UNCHANGED <<board, stored>> BY DEF Prom!Handle
<1>4. e = Prom!On("joined", e.about) /\ e.about \in prom.Targets BY Kinds
<1>5. \A k, x : Tells(leader, k, x)' <=> Tells(leader, k, x) /\ ~(e = Prom!On(k, x))
  BY <1>1, <1>2, HookHeard
<1>6. Tells(leader, "changed", e.about) BY <1>1, <1>2, <1>4 DEF EventsInv, Tells
<1>7. \A k, x : k # "joined" => (Tells(leader, k, x)' <=> Tells(leader, k, x))
  BY <1>4, <1>5, OnIsOne
<1>8. \A x \in Clean' : x \in Clean BY <1>2, <1>6, <1>7 DEF Clean
<1>9. \A a : Fit(a) \subseteq Fit(a)' BY <1>2, <1>8, FitKept
<1>10. Steady' = Steady BY <1>2 DEF Steady
<1>11. QED BY <1>1, <1>2, <1>3, <1>7, <1>8, <1>9, <1>10, ListsKept

-----------------------------------------------------------------------------
(* Steps that write lists *)

\* A target that has changed is clean once its job, or rules, are in all lists.
LEMMA ChangedKeeps ==
    ASSUME PromTypeOK, EventsInv, ListsInv,
           NEW e \in Prom!Event, Prom!Handle(leader, e), e.kind = "changed"
    PROVE  ListsInv'
<1> DEFINE x == e.about
           a == prom.AppOf[x]
           V == view[leader]
           I == Prom!Items(V, a)
<1>1. leader \in prom.Units /\ proms \subseteq prom.Proms /\ V \subseteq prom.Targets
  BY DEF PromTypeOK
<1>2. /\ view'[leader] = V /\ e \in todo[leader]
      /\ UNCHANGED <<leader, channel, present, offer, proms, used>>
  BY <1>1, HookTakes
<1>3. e = Prom!On("changed", x) /\ x \in prom.Targets /\ a \in Prom!Apps BY Kinds DEF Prom!Apps
<1>4. x \in V
  <2>1. Tells(leader, "changed", x) /\ ~Tells(leader, "joined", x)
    BY <1>2, <1>3 DEF Prom!Handle, Tells
  <2>2. QED BY <1>1, <1>3, <2>1 DEF EventsInv
<1>5. \A k, y : Tells(leader, k, y)' <=> Tells(leader, k, y) /\ ~(k = "changed" /\ y = x)
  <2>1. \A k, y : Tells(leader, k, y)' <=> Tells(leader, k, y) /\ ~(e = Prom!On(k, y))
    BY <1>1, <1>2, HookHeard
  <2>2. QED BY <1>3, <2>1, OnIsOne
<1>6. \A y \in Clean' : y \in V /\ offer[y] # None /\ (y \in Clean \/ y = x)
  BY <1>2, <1>5 DEF Clean
<1>7. \A b : b # a => Fit(b) \subseteq Fit(b)' BY <1>2, <1>6, FitKept
<1>8. Steady' = Steady BY <1>2 DEF Steady
<1>9. \A p : Tells(leader, "prometheus", p)' <=> Tells(leader, "prometheus", p) BY <1>5
<1>10. Prom!Changed(leader, x, V) BY DEF Prom!Handle
<1>11. CASE proms = {} /\ UNCHANGED <<board, stored>>
  <2>1. Steady => \A b \in Prom!Apps : stored[leader][b] = <<>>
    BY <1>11 DEF ListsInv, StoredInv
  <2>2. QED BY <1>1, <1>2, <1>8, <1>11, <2>1, ListsKept
<1>12. CASE I = {} /\ UNCHANGED <<board, stored>>
  <2>1. offer[x] = None BY <1>3, <1>4, <1>12 DEF Prom!Items
  <2>2. \A y \in Clean' : y \in Clean BY <1>6, <2>1
  <2>3. \A b : Fit(b) \subseteq Fit(b)' BY <1>2, <2>2, FitKept
  <2>4. QED BY <1>1, <1>2, <1>8, <1>9, <1>12, <2>2, <2>3, ListsKept
<1>13. ASSUME I # {},
              board' = [p \in prom.Proms |->
                   IF p \in proms THEN [board[p] EXCEPT ![a] = Prom!Set(board[p][a], I)]
                                  ELSE board[p]],
              \E p \in proms : stored' = [stored EXCEPT ![leader] = board'[p]]
       PROVE  ListsInv'
  <2>1. SUFFICES ASSUME Steady' PROVE FitInv' /\ StoredInv' /\ GivenInv' BY DEF ListsInv
  <2>2. FitInv /\ StoredInv /\ GivenInv BY <1>8, <2>1 DEF ListsInv
  <2>3. Offers' = Offers BY <1>2 DEF Offers, Prom!Values
  <2>4. /\ I \in SUBSET Offers
        /\ \A i \in I : i[1] \in V /\ prom.AppOf[i[1]] = a /\ offer[i[1]] # None /\ i[2] = offer[i[1]]
        /\ \A y \in V : prom.AppOf[y] = a /\ offer[y] # None => <<y, offer[y]>> \in I
    BY <1>1, ItemsTyped DEF Prom!Items
  <2> HIDE DEF I, V
  <2>5. I \in Fit(a)'
    <3>1. \A y \in Clean' : prom.AppOf[y] = a =>
             /\ <<y, offer[y]>> \in I
             /\ channel = "jobs" => \A i \in I : i[1] = y => i[2] = offer[y]
      BY <1>6, <2>4
    <3>2. QED BY <1>2, <1>13, <2>3, <2>4, <3>1 DEF Fit
  <2>6. channel = "jobs" \/ \A S \in Fit(a) : S \cup I \in Fit(a)'
    <3>1. SUFFICES ASSUME channel # "jobs", NEW S \in Fit(a) PROVE S \cup I \in Fit(a)'
      OBVIOUS
    <3>2. S \in SUBSET Offers /\ \A i \in S : i[1] \in V /\ prom.AppOf[i[1]] = a /\ offer[i[1]] # None
      BY DEF Fit, V
    <3>3. \A y \in Clean' : prom.AppOf[y] = a => <<y, offer[y]>> \in S \cup I
      BY <1>6, <2>4
    <3>4. QED BY <1>2, <1>13, <2>3, <2>4, <3>1, <3>2, <3>3 DEF Fit
  <2>7. ASSUME NEW p \in proms
        PROVE  /\ board'[p][a] \in Seq(Fit(a)') /\ board'[p][a] # <<>>
               /\ \A b \in Prom!Apps : b # a => board'[p][b] = board[p][b]
    <3>1. board \in [prom.Proms -> [Prom!Apps -> Seq(SUBSET Offers)]] BY DEF PromTypeOK
    <3>2. /\ board'[p][a] = Prom!Set(board[p][a], I)
          /\ \A b \in Prom!Apps : b # a => board'[p][b] = board[p][b]
      BY <1>1, <1>3, <1>13, <3>1
    <3>3. board[p][a] \in Seq(Fit(a)) BY <1>3, <2>2 DEF FitInv
    <3>4. Prom!Set(board[p][a], I) \in Seq(Fit(a)') /\ Prom!Set(board[p][a], I) # <<>>
      BY <2>5, <2>6, <3>3, SetFits
    <3>5. QED BY <3>2, <3>4
  <2>8. \A p \in proms, b \in Prom!Apps : board'[p][b] \in Seq(Fit(b)')
    <3>1. TAKE p \in proms, b \in Prom!Apps
    <3>2. CASE b = a BY <2>7, <3>2
    <3>3. CASE b # a
      <4>1. board[p][b] \in Seq(Fit(b)) BY <2>2 DEF FitInv
      <4>2. board'[p][b] = board[p][b] BY <2>7, <3>3
      <4>3. Fit(b) \subseteq Fit(b)' BY <1>7, <3>3
      <4>4. QED BY <4>1, <4>2, <4>3, SeqWidens
    <3>4. QED BY <3>2, <3>3
  <2>9. PICK q \in proms : stored'[leader] = board'[q] BY <1>1, <1>13 DEF PromTypeOK
  <2>10. FitInv' BY <1>2, <2>8, <2>9 DEF FitInv, Prom!Apps
  <2>11. StoredInv' BY <1>2, <2>9 DEF StoredInv
  <2>12. GivenInv'
    <3>1. SUFFICES ASSUME NEW p \in proms, NEW y \in Clean', ~Tells(leader, "prometheus", p)
                   PROVE  board'[p][prom.AppOf[y]] # <<>>
      BY <1>2, <1>9 DEF GivenInv
    <3>2. y \in prom.Targets /\ prom.AppOf[y] \in Prom!Apps BY <1>1, <1>6 DEF Prom!Apps, V
    <3>3. CASE prom.AppOf[y] = a BY <2>7, <3>3
    <3>4. CASE prom.AppOf[y] # a
      <4>1. y \in Clean BY <1>6, <3>4
      <4>2. board[p][prom.AppOf[y]] # <<>> BY <2>2, <3>1, <4>1 DEF GivenInv
      <4>3. QED BY <2>7, <3>2, <3>4, <4>2
    <3>5. QED BY <3>3, <3>4
  <2>13. QED BY <2>10, <2>11, <2>12
<1>14. QED
  <2>1. \/ (I = {} \/ proms = {}) /\ UNCHANGED <<board, stored>>
        \/ /\ I # {}
           /\ board' = [p \in prom.Proms |->
                   IF p \in proms THEN [board[p] EXCEPT ![a] = Prom!Set(board[p][a], I)]
                                  ELSE board[p]]
           /\ \E p \in proms : stored' = [stored EXCEPT ![leader] = board'[p]]
    BY <1>1, <1>3, <1>10, ChangedWrites
  <2>2. QED BY <1>11, <1>12, <1>13, <2>1

\* One that departs is taken out of every list that has its application.
LEMMA DepartedKeeps ==
    ASSUME PromTypeOK, EventsInv, ListsInv,
           NEW e \in Prom!Event, Prom!Handle(leader, e), e.kind = "departed"
    PROVE  ListsInv'
<1> DEFINE x == e.about
           a == prom.AppOf[x]
<1>1. leader \in prom.Units /\ proms \subseteq prom.Proms /\ view[leader] \subseteq prom.Targets
  BY DEF PromTypeOK
<1>2. /\ view'[leader] = view[leader] \ {x} /\ e \in todo[leader]
      /\ UNCHANGED <<leader, channel, present, offer, proms, used>>
  BY <1>1, HookTakes
<1>3. e = Prom!On("departed", x) /\ x \in prom.Targets /\ a \in Prom!Apps BY Kinds DEF Prom!Apps
<1>4. \A k, y : Tells(leader, k, y)' <=> Tells(leader, k, y) /\ ~(k = "departed" /\ y = x)
  <2>1. \A k, y : Tells(leader, k, y)' <=> Tells(leader, k, y) /\ ~(e = Prom!On(k, y))
    BY <1>1, <1>2, HookHeard
  <2>2. QED BY <1>3, <2>1, OnIsOne
<1>5. \A y \in Clean' : y \in Clean /\ y # x BY <1>2, <1>4 DEF Clean
<1>6. \A b : b # a => Fit(b) \subseteq Fit(b)' BY <1>1, <1>2, <1>5, FitKept
<1>7. Steady' = Steady BY <1>2 DEF Steady
<1>8. \A p : Tells(leader, "prometheus", p)' <=> Tells(leader, "prometheus", p) BY <1>4
<1>9. Prom!Departed(leader, x) BY DEF Prom!Handle
<1> HIDE DEF x, a
<1>10. CASE (\A p \in proms : board[p][a] = <<>>) /\ UNCHANGED <<board, stored>>
  <2>1. Steady => stored[leader][a] = <<>>
    BY <1>3, <1>10 DEF ListsInv, StoredInv
  <2>2. QED BY <1>1, <1>2, <1>5, <1>6, <1>7, <1>8, <1>10, <2>1, ListsKept
<1>11. ASSUME board' = [p \in prom.Proms |->
                   IF p \in proms /\ board[p][a] # <<>>
                     THEN [board[p] EXCEPT ![a] = Prom!Removed(board[p][a], x)]
                     ELSE board[p]],
              \E p \in proms : stored' = [stored EXCEPT ![leader] = board'[p]]
       PROVE  ListsInv'
  <2>1. SUFFICES ASSUME Steady' PROVE FitInv' /\ StoredInv' /\ GivenInv' BY DEF ListsInv
  <2>2. FitInv /\ StoredInv /\ GivenInv BY <1>7, <2>1 DEF ListsInv
  <2>3. Offers' = Offers BY <1>2 DEF Offers, Prom!Values
  <2>4. \A S \in Fit(a) : LET kept == {i \in S : i[1] # x} IN kept # {} => kept \in Fit(a)'
    <3>1. SUFFICES ASSUME NEW S \in Fit(a), NEW kept, kept = {i \in S : i[1] # x}, kept # {}
                   PROVE  kept \in Fit(a)'
      OBVIOUS
    <3>2. /\ S \in SUBSET Offers
          /\ \A i \in S : i[1] \in view[leader] /\ prom.AppOf[i[1]] = a /\ offer[i[1]] # None
          /\ \A y \in Clean : prom.AppOf[y] = a =>
                /\ <<y, offer[y]>> \in S
                /\ channel = "jobs" => \A i \in S : i[1] = y => i[2] = offer[y]
      BY DEF Fit
    <3>3. \A i \in kept : i[1] \in view'[leader] /\ prom.AppOf[i[1]] = a /\ offer[i[1]] # None
      BY <1>2, <3>1, <3>2
    <3>4. \A y \in Clean' : prom.AppOf[y] = a =>
                /\ <<y, offer[y]>> \in kept
                /\ channel = "jobs" => \A i \in kept : i[1] = y => i[2] = offer[y]
      BY <1>5, <3>1, <3>2
    <3>5. kept \in SUBSET Offers BY <3>1, <3>2
    <3>6. QED BY <1>2, <2>3, <3>1, <3>3, <3>4, <3>5 DEF Fit
  <2>5. ASSUME NEW p \in proms
        PROVE  /\ board'[p][a] \in Seq(Fit(a)')
               /\ board[p][a] # <<>> /\ (\E y \in Clean' : prom.AppOf[y] = a) => board'[p][a] # <<>>
               /\ \A b \in Prom!Apps : b # a => board'[p][b] = board[p][b]
    <3>1. board \in [prom.Proms -> [Prom!Apps -> Seq(SUBSET Offers)]] BY DEF PromTypeOK
    <3>2. board[p][a] \in Seq(Fit(a)) BY <1>3, <2>2 DEF FitInv
    <3>3. \A b \in Prom!Apps : b # a => board'[p][b] = board[p][b]
      BY <1>1, <1>3, <1>11, <3>1
    <3>4. Prom!Removed(board[p][a], x) \in Seq(Fit(a)') BY <2>4, <3>2, RemovedFits
    <3>5. CASE board[p][a] = <<>>
      <4>1. board'[p][a] = <<>> BY <1>1, <1>11, <3>5
      <4>2. QED BY <3>3, <3>5, <4>1
    <3>6. CASE board[p][a] # <<>>
      <4>1. board'[p][a] = Prom!Removed(board[p][a], x) BY <1>1, <1>3, <1>11, <3>1, <3>6
      <4>2. ASSUME NEW y \in Clean', prom.AppOf[y] = a
            PROVE  \A S \in Fit(a) : \E i \in S : i[1] # x
        <5>1. TAKE S \in Fit(a)
        <5>2. y \in Clean /\ y # x BY <1>5
        <5>3. <<y, offer[y]>> \in S BY <4>2, <5>2 DEF Fit
        <5>4. <<y, offer[y]>>[1] # x BY <5>2
        <5>5. QED BY <5>3, <5>4
      <4>3. (\E y \in Clean' : prom.AppOf[y] = a) => Prom!Removed(board[p][a], x) # <<>>
        <5>1. (\E y \in Clean' : prom.AppOf[y] = a) => \A S \in Fit(a) : \E i \in S : i[1] # x
          BY <4>2
        <5>2. QED BY <2>4, <3>2, <3>6, <5>1, RemovedFits
      <4>4. QED BY <3>3, <3>4, <4>1, <4>3
    <3>7. QED BY <3>5, <3>6
  <2>6. \A p \in proms, b \in Prom!Apps : board'[p][b] \in Seq(Fit(b)')
    <3>1. TAKE p \in proms, b \in Prom!Apps
    <3>2. CASE b = a BY <2>5, <3>2
    <3>3. CASE b # a
      <4>1. board[p][b] \in Seq(Fit(b)) BY <2>2 DEF FitInv
      <4>2. board'[p][b] = board[p][b] BY <2>5, <3>3
      <4>3. Fit(b) \subseteq Fit(b)' BY <1>6, <3>3
      <4>4. QED BY <4>1, <4>2, <4>3, SeqWidens
    <3>4. QED BY <3>2, <3>3
  <2>7. PICK q \in proms : stored'[leader] = board'[q] BY <1>1, <1>11 DEF PromTypeOK
  <2>8. FitInv' BY <1>2, <2>6, <2>7 DEF FitInv, Prom!Apps
  <2>9. StoredInv' BY <1>2, <2>7 DEF StoredInv
  <2>10. GivenInv'
    <3>1. SUFFICES ASSUME NEW p \in proms, NEW y \in Clean', ~Tells(leader, "prometheus", p)
                   PROVE  board'[p][prom.AppOf[y]] # <<>>
      BY <1>2, <1>8 DEF GivenInv
    <3>2. y \in Clean /\ prom.AppOf[y] \in Prom!Apps BY <1>5, CleanIsTarget DEF Prom!Apps
    <3>3. board[p][prom.AppOf[y]] # <<>> BY <2>2, <3>1, <3>2 DEF GivenInv
    <3>4. CASE prom.AppOf[y] = a BY <2>5, <3>3, <3>4
    <3>5. CASE prom.AppOf[y] # a BY <2>5, <3>2, <3>3, <3>5
    <3>6. QED BY <3>4, <3>5
  <2>11. QED BY <2>8, <2>9, <2>10
<1>12. QED
  <2>1. \/ (\A p \in proms : board[p][a] = <<>>) /\ UNCHANGED <<board, stored>>
        \/ /\ board' = [p \in prom.Proms |->
                   IF p \in proms /\ board[p][a] # <<>>
                     THEN [board[p] EXCEPT ![a] = Prom!Removed(board[p][a], x)]
                     ELSE board[p]]
           /\ \E p \in proms : stored' = [stored EXCEPT ![leader] = board'[p]]
    BY <1>1, <1>3, <1>9, DepartedWrites DEF a
  <2>2. QED BY <1>10, <1>11, <2>1

\* A Prometheus is given what is remembered and what the targets publish now.
LEMMA PrometheusKeeps ==
    ASSUME PromTypeOK, EventsInv, ListsInv,
           NEW e \in Prom!Event, Prom!Handle(leader, e), e.kind = "prometheus"
    PROVE  ListsInv'
<1> DEFINE p == e.about
           V == view[leader]
           Fresh(a) == IF Prom!Items(V, a) = {} THEN <<>> ELSE <<Prom!Items(V, a)>>
<1>1. leader \in prom.Units /\ proms \subseteq prom.Proms /\ V \subseteq prom.Targets
  BY DEF PromTypeOK
<1>2. /\ view'[leader] = V /\ e \in todo[leader]
      /\ UNCHANGED <<leader, channel, present, offer, proms, used>>
  BY <1>1, HookTakes
<1>3. e = Prom!On("prometheus", p) /\ p \in prom.Proms BY Kinds
<1>4. \A k, y : Tells(leader, k, y)' <=> Tells(leader, k, y) /\ ~(k = "prometheus" /\ y = p)
  <2>1. \A k, y : Tells(leader, k, y)' <=> Tells(leader, k, y) /\ ~(e = Prom!On(k, y))
    BY <1>1, <1>2, HookHeard
  <2>2. QED BY <1>3, <2>1, OnIsOne
<1>5. \A y \in Clean' : y \in Clean BY <1>2, <1>4 DEF Clean
<1>6. \A a : Fit(a) \subseteq Fit(a)' BY <1>1, <1>2, <1>5, FitKept
<1>7. Steady' = Steady BY <1>2 DEF Steady
<1>8. Prom!SetPrometheusData(leader, p, V) BY DEF Prom!Handle
<1>9. /\ board' = [board EXCEPT ![p] = [a \in Prom!Apps |-> stored[leader][a] \o Fresh(a)]]
      /\ stored' = stored
  BY <1>8 DEF Prom!SetPrometheusData
<1>10. board \in [prom.Proms -> [Prom!Apps -> Seq(SUBSET Offers)]] BY DEF PromTypeOK
<1>11. /\ \A q \in prom.Proms : q # p => board'[q] = board[q]
       /\ \A a \in Prom!Apps : board'[p][a] = stored[leader][a] \o Fresh(a)
  BY <1>3, <1>9, <1>10
<1>12. ASSUME NEW a \in Prom!Apps
       PROVE  /\ Fresh(a) \in Seq(Fit(a))
              /\ (\E y \in Clean : prom.AppOf[y] = a) => Fresh(a) # <<>>
  <2> DEFINE I == Prom!Items(V, a)
  <2>1. /\ I \in SUBSET Offers
        /\ \A i \in I : i[1] \in V /\ prom.AppOf[i[1]] = a /\ offer[i[1]] # None /\ i[2] = offer[i[1]]
        /\ \A y \in V : prom.AppOf[y] = a /\ offer[y] # None => <<y, offer[y]>> \in I
    BY <1>1, ItemsTyped DEF Prom!Items
  <2>2. Fresh(a) = IF I = {} THEN <<>> ELSE <<I>> OBVIOUS
  <2>3. \A y \in Clean : y \in V /\ offer[y] # None BY DEF Clean
  <2> HIDE DEF I, Fresh
  <2>4. I # {} => I \in Fit(a) BY <2>1, <2>3 DEF Fit, V
  <2>5. I # {} => <<I>> \in Seq(Fit(a)) /\ <<I>> # <<>> BY <2>4, Single
  <2>6. <<>> \in Seq(Fit(a)) OBVIOUS
  <2>7. (\E y \in Clean : prom.AppOf[y] = a) => I # {} BY <2>1, <2>3
  <2>8. QED BY <2>2, <2>5, <2>6, <2>7
<1> HIDE DEF Fresh, V
<1>13. SUFFICES ASSUME Steady' PROVE FitInv' /\ StoredInv' /\ GivenInv' BY DEF ListsInv
<1>14. FitInv /\ StoredInv /\ GivenInv BY <1>7, <1>13 DEF ListsInv
<1>15. ASSUME NEW a \in Prom!Apps
       PROVE  /\ stored[leader][a] \o Fresh(a) \in Seq(Fit(a))
              /\ stored[leader][a] # <<>> \/ Fresh(a) # <<>> => stored[leader][a] \o Fresh(a) # <<>>
  <2>1. stored[leader][a] \in Seq(Fit(a)) BY <1>14 DEF FitInv
  <2>2. QED BY <1>12, <2>1, JoinedFits
<1>16. FitInv'
  <2>1. ASSUME NEW a \in Prom!Apps
        PROVE  /\ stored[leader][a] \in Seq(Fit(a)')
               /\ \A q \in proms : board'[q][a] \in Seq(Fit(a)')
    <3>1. Seq(Fit(a)) \subseteq Seq(Fit(a)') BY <1>6, SeqWidens
    <3>2. stored[leader][a] \in Seq(Fit(a)) /\ \A q \in proms : board[q][a] \in Seq(Fit(a))
      BY <1>14 DEF FitInv
    <3>3. QED BY <1>1, <1>11, <1>15, <3>1, <3>2
  <2>2. QED BY <1>2, <1>9, <2>1 DEF FitInv, Prom!Apps
<1>17. StoredInv'
  <2>1. ASSUME NEW a \in Prom!Apps, stored[leader][a] # <<>>
        PROVE  \E q \in proms : board'[q][a] # <<>>
    <3>1. PICK q \in proms : board[q][a] # <<>> BY <1>14, <2>1 DEF StoredInv
    <3>2. CASE q = p BY <1>11, <1>15, <2>1, <3>2
    <3>3. CASE q # p BY <1>1, <1>11, <3>1, <3>3
    <3>4. QED BY <3>2, <3>3
  <2>2. QED BY <1>2, <1>9, <2>1 DEF StoredInv, Prom!Apps
<1>18. GivenInv'
  <2>1. SUFFICES ASSUME NEW q \in proms, NEW y \in Clean', ~Tells(leader, "prometheus", q)'
                 PROVE  board'[q][prom.AppOf[y]] # <<>>
    BY <1>2 DEF GivenInv
  <2>2. y \in Clean /\ prom.AppOf[y] \in Prom!Apps BY <1>5, CleanIsTarget DEF Prom!Apps
  <2>3. CASE q = p BY <1>11, <1>12, <1>15, <2>2, <2>3
  <2>4. CASE q # p
    <3>1. ~Tells(leader, "prometheus", q) BY <1>4, <2>1, <2>4
    <3>2. board[q][prom.AppOf[y]] # <<>> BY <1>14, <2>2, <3>1 DEF GivenInv
    <3>3. QED BY <1>1, <1>11, <2>4, <3>2
  <2>5. QED BY <2>3, <2>4
<1>19. QED BY <1>16, <1>17, <1>18

-----------------------------------------------------------------------------
(* The invariant *)

LEMMA NextLists == ASSUME Prom!ConstantsOK, PromTypeOK, EventsInv, ListsInv, [Prom!Next]_(Prom!vars)
                   PROVE ListsInv'
<1>1. CASE UNCHANGED Prom!vars
  <2>1. UNCHANGED <<leader, channel, offer, proms, view, board, stored, todo, used>>
    BY <1>1 DEF Prom!vars, Prom!targets
  <2>2. Clean' = Clean BY <2>1 DEF Clean, Tells
  <2>3. \A a : Fit(a) \subseteq Fit(a)' BY <2>1, <2>2, FitKept
  <2>4. proms \subseteq prom.Proms BY DEF PromTypeOK
  <2>5. QED BY <2>1, <2>2, <2>3, <2>4, ListsKept DEF Steady, Tells
<1>2. ASSUME NEW u \in prom.Units, Prom!LeaderMoves(u) PROVE ListsInv'
  <2>1. ~Steady' BY <1>2, SteadyBefore DEF Prom!LeaderMoves, Prom!EnvSteps
  <2>2. QED BY <2>1 DEF ListsInv
<1>3. ASSUME NEW u \in prom.Units, NEW e \in Prom!Event, Prom!Handle(u, e) PROVE ListsInv'
  <2>1. CASE u # leader BY <1>3, <2>1, OthersKeep
  <2>2. CASE u = leader
    <3>1. CASE e.kind = "joined" BY <1>3, <2>2, <3>1, JoinedKeeps
    <3>2. CASE e.kind = "changed" BY <1>3, <2>2, <3>2, ChangedKeeps
    <3>3. CASE e.kind = "departed" BY <1>3, <2>2, <3>3, DepartedKeeps
    <3>4. CASE e.kind = "prometheus" BY <1>3, <2>2, <3>4, PrometheusKeeps
    <3>5. QED BY <3>1, <3>2, <3>3, <3>4, Kinds
  <2>3. QED BY <2>1, <2>2
<1>4. ASSUME NEW x \in prom.Targets, Prom!Join(x) PROVE ListsInv' BY <1>4, JoinKeeps
<1>5. ASSUME NEW x \in prom.Targets, NEW w \in Prom!Values, Prom!Offer(x, w) PROVE ListsInv'
  BY <1>5, OfferKeeps
<1>6. ASSUME NEW x \in prom.Targets, Prom!Depart(x) PROVE ListsInv' BY <1>6, DepartKeeps
<1>7. ASSUME NEW p \in prom.Proms, Prom!Relate(p) \/ Prom!Scale(p) PROVE ListsInv'
  BY <1>7, RelateKeeps
<1>8. ASSUME NEW p \in prom.Proms, Prom!Unrelate(p) PROVE ListsInv'
  <2>1. ~Steady' BY <1>8, SteadyBefore DEF Prom!Unrelate, Prom!EnvSteps
  <2>2. QED BY <2>1 DEF ListsInv
<1>9. QED BY <1>1, <1>2, <1>3, <1>4, <1>5, <1>6, <1>7, <1>8 DEF Prom!Next

LEMMA PromInitInv == ASSUME Prom!ConstantsOK, Prom!Init PROVE PromInv
<1>1. leader \in prom.Units BY DEF Prom!Init, Prom!ConstantsOK
<1>2. Prom!Nothing \in [Prom!Apps -> Seq(SUBSET Offers)] /\ \A a \in Prom!Apps : Prom!Nothing[a] = <<>>
  BY DEF Prom!Nothing
<1>3. PromTypeOK
  <2>1. /\ board \in [prom.Proms -> [Prom!Apps -> Seq(SUBSET Offers)]]
        /\ stored \in [prom.Units -> [Prom!Apps -> Seq(SUBSET Offers)]]
    BY <1>2 DEF Prom!Init
  <2>2. QED BY <1>1, <2>1 DEF Prom!Init, PromTypeOK
<1>4. EventsInv BY DEF Prom!Init, EventsInv, Tells
<1>5. FitInv /\ StoredInv /\ GivenInv
  <2>1. \A a \in Prom!Apps : stored[leader][a] = <<>> BY <1>1, <1>2 DEF Prom!Init
  <2>2. \A a : <<>> \in Seq(Fit(a)) OBVIOUS
  <2>3. proms = {} BY DEF Prom!Init
  <2>4. QED BY <2>1, <2>2, <2>3 DEF FitInv, StoredInv, GivenInv
<1>6. QED BY <1>3, <1>4, <1>5 DEF PromInv, ListsInv

LEMMA PromSpecInv == ASSUME Prom!ConstantsOK PROVE Prom!Spec => []PromInv
<1>1. Prom!Init => PromInv BY PromInitInv
<1>2. PromInv /\ [Prom!Next]_(Prom!vars) => PromInv' BY NextTyped, NextEvents, NextLists DEF PromInv
<1>3. QED BY <1>1, <1>2, PTL DEF Prom!Spec

\* Once the leader has heard everything, every target that publishes is clean.
LEMMA QuietIsClean ==
    ASSUME PromInv, Prom!Quiet
    PROVE  /\ FitInv /\ view[leader] = present
           /\ Clean = {x \in present : offer[x] # None}
           /\ \A p \in proms, x \in Clean : board[p][prom.AppOf[x]] # <<>>
<1>1. Steady /\ \A k, x : ~Tells(leader, k, x) BY DEF Prom!Quiet, Steady, Tells
<1>2. leader \in prom.Units /\ view[leader] \subseteq prom.Targets /\ present \subseteq prom.Targets
  BY DEF PromInv, PromTypeOK
<1>3. view[leader] = present BY <1>1, <1>2 DEF PromInv, EventsInv
<1>4. FitInv /\ GivenInv BY <1>1 DEF PromInv, ListsInv
<1>5. QED BY <1>1, <1>3, <1>4 DEF Clean, GivenInv

\* With what fits in every list, each has what every present target publishes,
\* and nothing of any other.
LEMMA QuietLists ==
    ASSUME PromInv, Prom!Quiet, NEW p \in proms, NEW a \in Prom!Apps
    PROVE  /\ Prom!Items(present, a) \subseteq Prom!Published(p, a)
           /\ \A i \in Prom!Published(p, a) : i[1] \in present
           /\ channel = "jobs" => Prom!Published(p, a) \subseteq Prom!Items(present, a)
<1> DEFINE l == board[p][a]
<1>1. l \in Seq(Fit(a)) BY QuietIsClean DEF FitInv
<1>2. \A i \in DOMAIN l : l[i] \in Fit(a) BY <1>1
<1>3. Prom!Published(p, a) = UNION {l[i] : i \in DOMAIN l} BY DEF Prom!Published
<1> HIDE DEF l
<1>4. ASSUME NEW x \in present, prom.AppOf[x] = a, offer[x] # None
      PROVE  <<x, offer[x]>> \in Prom!Published(p, a)
  <2>1. x \in Clean BY <1>4, QuietIsClean
  <2>2. l # <<>> BY <1>4, <2>1, QuietIsClean DEF l
  <2>3. 1 \in DOMAIN l BY <1>1, <2>2
  <2>4. <<x, offer[x]>> \in l[1] BY <1>2, <1>4, <2>1, <2>3 DEF Fit
  <2>5. QED BY <1>3, <2>3, <2>4
<1>5. ASSUME NEW i \in Prom!Published(p, a)
      PROVE  /\ i[1] \in present
             /\ channel = "jobs" => i \in Prom!Items(present, a)
  <2>1. PICK j \in DOMAIN l : i \in l[j] BY <1>3, <1>5
  <2>2. l[j] \in Fit(a) BY <1>2
  <2>3. /\ i \in Offers /\ i[1] \in present /\ prom.AppOf[i[1]] = a /\ offer[i[1]] # None
    BY <2>1, <2>2, QuietIsClean DEF Fit
  <2>4. i[1] \in Clean BY <2>3, QuietIsClean
  <2>5. channel = "jobs" => i[2] = offer[i[1]] BY <2>1, <2>2, <2>3, <2>4 DEF Fit
  <2>6. i = <<i[1], i[2]>> BY <2>3 DEF Offers
  <2>7. QED BY <2>3, <2>5, <2>6 DEF Prom!Items
<1>6. QED BY <1>4, <1>5 DEF Prom!Items

\* As long as the leader stays and no Prometheus goes, each Prometheus has been
\* given exactly the hosts of the present targets.
THEOREM TargetsStayCurrent == ASSUME Prom!ConstantsOK PROVE Prom!Spec => []Prom!TargetsCurrent
<1>1. PromInv => Prom!TargetsCurrent BY QuietLists DEF Prom!TargetsCurrent
<1>2. QED BY <1>1, PromSpecInv, PTL

\* Likewise it has all their rules, and rules of no other unit.
THEOREM RulesStayCurrent == ASSUME Prom!ConstantsOK PROVE Prom!Spec => []Prom!RulesCurrent
<1>1. PromInv => Prom!RulesCurrent BY QuietLists DEF Prom!RulesCurrent
<1>2. QED BY <1>1, PromSpecInv, PTL

-----------------------------------------------------------------------------
(* Of Libraries, in every behaviour of which one of the modules runs *)

\* What runs is MetricsEndpoint all along, or never.
LEMMA MetricsRuns == Spec => []~(library = "metrics") \/ Metrics!Spec
<1>1. library = "metrics" /\ Init => Metrics!Init
  BY DEF Init
<1>2. library = "metrics" /\ [Next]_vars => [Metrics!Next]_(Metrics!vars)
  BY DEF Next, vars, ofMetrics, Metrics!vars, Metrics!provider, Metrics!consumer,
     Metrics!databags
<1>3. library = "metrics" /\ [Next]_vars => (library = "metrics")'
  BY DEF Next, vars
<1>4. ~(library = "metrics") /\ [Next]_vars => (~(library = "metrics"))'
  BY DEF Next, vars
<1>5. QED
  BY <1>1, <1>2, <1>3, <1>4, PTL DEF Spec, Metrics!Spec

\* Once all have settled, the rules that a PrometheusRulesProvider forwards are at
\* Prometheus in every relation, unless they are invalid, whoever led meanwhile.
THEOREM LibrariesForwardedRulesArrive == Spec => []ForwardedRulesArrive
<1>1. Metrics!Spec => []Metrics!ForwardedRulesArrive
  BY ForwardedRulesReach, ConstantsAssumption
<1>2. QED
  BY <1>1, MetricsRuns, PTL DEF ForwardedRulesArrive

\* And what Prometheus found wrong with the jobs and the rules of an application
\* has been told to its leader, as long as leadership has not moved.
THEOREM LibrariesErrorsReachLeader == Spec => []ErrorsReachLeader
<1>1. Metrics!Spec => []Metrics!ErrorsReachLeader
  BY ErrorsComeBack, ConstantsAssumption
<1>2. QED
  BY <1>1, MetricsRuns, PTL DEF ErrorsReachLeader

\* What runs is MetricsAggregator all along, or never.
LEMMA PromRuns == Spec => []~(library = "prometheus") \/ Prom!Spec
<1>1. library = "prometheus" /\ Init => Prom!Init
  BY DEF Init
<1>2. library = "prometheus" /\ [Next]_vars => [Prom!Next]_(Prom!vars)
  BY DEF Next, vars, ofPrometheus, Prom!vars, Prom!targets
<1>3. library = "prometheus" /\ [Next]_vars => (library = "prometheus")'
  BY DEF Next, vars
<1>4. ~(library = "prometheus") /\ [Next]_vars => (~(library = "prometheus"))'
  BY DEF Next, vars
<1>5. QED
  BY <1>1, <1>2, <1>3, <1>4, PTL DEF Spec, Prom!Spec

\* Once the hooks of the leader have run, each Prometheus has been given the
\* targets present, at the hosts they gave last, and no other, as long as the
\* leader stays and no Prometheus is removed.
THEOREM LibrariesTargetsCurrent == Spec => []TargetsCurrent
<1>1. Prom!Spec => []Prom!TargetsCurrent
  BY TargetsStayCurrent, ConstantsAssumption
<1>2. QED
  BY <1>1, PromRuns, PTL DEF TargetsCurrent

\* Likewise each Prometheus has the rules of the units present, and rules of no
\* other unit.
THEOREM LibrariesRulesCurrent == Spec => []RulesCurrent
<1>1. Prom!Spec => []Prom!RulesCurrent
  BY RulesStayCurrent, ConstantsAssumption
<1>2. QED
  BY <1>1, PromRuns, PTL DEF RulesCurrent

=============================================================================
