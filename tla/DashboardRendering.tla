-------------------------- MODULE DashboardRendering --------------------------
(***************************************************************************)
(* What grafana_dashboard.py does to a dashboard on its way to Grafana:    *)
(* CharmedDashboard points panels at the datasource dropdowns and confines *)
(* queries to the topology, the aggregator strips what reactive charms     *)
(* leave in theirs.                                                        *)
(* A dashboard is [uid, inputs, templated, templating, panels, rows]:      *)
(* inputs and the templating list, if there is one, are sequences of       *)
(* [name, type, query], rows a sequence of sequences of panels.  A         *)
(* panel is [ds, targets]; ds is [form, name, braced, kind]: the variable  *)
(* that the text, or the uid of the object, names, whether as ${name}, and *)
(* the kind of datasource that the text contains or the object states.  A  *)
(* target is [ranges, parses, confined]: the ranges and offsets of its     *)
(* expression.  Names are compared as they are: those that differ from a   *)
(* dropdown's in case only are left out.                                   *)
(***************************************************************************)
EXTENDS Naturals, SequencesExt

NoUid == ""
Held  == "5y"    \* takes the place of each range while cos-tool parses

Variable(n, k) == [name |-> n, type |-> "datasource", query |-> k]
Dropdown    == [prometheus |-> "prometheusds", loki |-> "lokids"]
Datasources == <<Variable("lokids", "loki"), Variable("prometheusds", "prometheus")>>
TopologyDropdowns == <<[name |-> "juju_unit", type |-> "query", query |-> "prometheus"]>>
DropdownNames == {Dropdown[k] : k \in DOMAIN Dropdown}
Dropdowns(inject) == IF inject THEN TopologyDropdowns \o Datasources ELSE Datasources

\* The datasource variables a dashboard declares; its template variables win.
Declared(inputs, templating) ==
    LET of(list)  == SelectSeq(list, LAMBDA v : v.type = "datasource")
        vars      == of(inputs) \o of(templating)
    IN  [n \in {v.name : v \in ToSet(vars)} |->
            Last(SelectSeq(vars, LAMBDA v : v.name = n)).query]
Sources(d) == Declared(d.inputs, d.templating)

\* A reference to a dropdown, in the one form that is known: "${lokids}", and
\* not "$lokids".
Known(ds) == ds.form # "none" /\ ds.braced /\ ds.name \in DropdownNames

\* mutation: panels whose datasource is an object are left alone
ReplaceableText(ds, sources) ==
    /\ ds.form = "text" /\ ~Known(ds)
    /\ ds.name \in DOMAIN sources /\ sources[ds.name] \in DOMAIN Dropdown

\* The dashboard has template variables, and this one has a dropdown for it.
Replaceable(ds, sources) ==
    /\ ds.form # "none" /\ ~Known(ds)
    /\ ds.name \in DOMAIN sources /\ sources[ds.name] \in DOMAIN Dropdown

Referring(ds, n) == [ds EXCEPT !.name = n, !.braced = TRUE]

\* Without template variables the kind is taken from what ds looks like.
Guessed(ds) ==
    IF ds.kind \in DOMAIN Dropdown THEN Referring(ds, Dropdown[ds.kind])
    ELSE IF ds.form = "text" /\ ds.kind # "grafana" THEN Referring(ds, "prometheusds")
    ELSE ds

\* _template_panels
Redirected(ds, templated, sources) ==
    IF ds.form = "none" THEN ds
    ELSE IF ~templated THEN Guessed(ds)
    ELSE IF Replaceable(ds, sources) THEN Referring(ds, Dropdown[sources[ds.name]])
    ELSE ds

TemplatePanels(panels, templated, sources) ==
    [i \in DOMAIN panels |-> [panels[i] EXCEPT !.ds = Redirected(@, templated, sources)]]

PanelsOf(d) == d.panels \o FlattenSeq(d.rows)

\* The template variables that are left: the dropdowns that are missing come
\* first, those that panels no longer use are deleted.  That includes a dropdown
\* which the template declares itself and a panel refers to without braces.
Templating(d, inject) ==
    LET sources == Sources(d)
        list == IF ~d.templated THEN Dropdowns(inject)
                ELSE FoldLeft(LAMBDA l, v : IF Contains(l, v) THEN l ELSE <<v>> \o l,
                              d.templating, Dropdowns(inject))
        used == IF ~d.templated THEN {}
                ELSE {p.ds.name : p \in {q \in ToSet(PanelsOf(d)) : Replaceable(q.ds, sources)}}
    IN  SelectSeq(list, LAMBDA v : v.name \notin used)

\* _convert_dashboard_fields and _replace_template_fields; the inputs go.
Convert(d, inject) ==
    LET Over(ps) == IF ~d.templated \/ DOMAIN Sources(d) # {}
                      THEN TemplatePanels(ps, d.templated, Sources(d)) ELSE ps
    IN  [d EXCEPT !.inputs = <<>>, !.templated = TRUE,
                  !.templating = Templating(d, inject),
                  !.panels = Over(@),
                  !.rows = [i \in DOMAIN @ |-> Over(@[i])]]

\* mutation: the ranges are put back from the right
RestoredFromRight(ranges) ==
    FoldLeft(LAMBDA held, v :
                 LET free == {i \in DOMAIN held : held[i] = Held}
                 IN  IF free = {} THEN held
                     ELSE [held EXCEPT ![CHOOSE i \in free : \A j \in free : j <= i] = v],
             [i \in DOMAIN ranges |-> Held], ranges)

\* Each range is put back where the first placeholder is left.
Restored(ranges) ==
    FoldLeft(LAMBDA held, v :
                 LET free == {i \in DOMAIN held : held[i] = Held}
                 IN  IF free = {} THEN held
                     ELSE [held EXCEPT ![CHOOSE i \in free : \A j \in free : i <= j] = v],
             [i \in DOMAIN ranges |-> Held], ranges)

\* _modify_panel, of a panel whose datasource is known
Modified(p) ==
    LET Query(q) == [q EXCEPT !.ranges = Restored(@), !.confined = @ \/ q.parses]
    IN  [p EXCEPT !.targets = [i \in DOMAIN p.targets |-> Query(p.targets[i])]]

\* _inject_labels: top-level panels only, not those in rows.
InjectLabels(d) ==
    [d EXCEPT !.panels = [i \in DOMAIN d.panels |->
        IF Known(d.panels[i].ds) THEN Modified(d.panels[i]) ELSE d.panels[i]]]

\* _manage_dashboard_uid
WithUid(d, alt) == IF d.uid = NoUid THEN [d EXCEPT !.uid = alt] ELSE d

\* mutation: the labels are injected before the panels are converted
RenderedUnconverted(t) ==
    Convert(IF t.inject THEN InjectLabels(t.content) ELSE t.content, t.inject)

\* What _render_dashboards_and_signal_changed makes of one template; the
\* topology is given where dropdowns are to be injected.
Rendered(t) ==
    LET c == Convert(WithUid(t.content, t.altUid), t.inject)
    IN  IF t.inject THEN InjectLabels(c) ELSE c

\* for i in range(len(list)): if list[i] is doomed: del list[i].  An index
\* past the end of the shortened list raises IndexError.
DeletedWhileIterating(list, doomed) ==
    FoldLeft(LAMBDA s, i :
                 IF s.crashed \/ i > Len(s.list) THEN [s EXCEPT !.crashed = TRUE]
                 ELSE IF s.list[i] \in doomed THEN [s EXCEPT !.list = RemoveAt(@, i)] ELSE s,
             [list |-> list, crashed |-> FALSE], [i \in DOMAIN list |-> i])

\* _strip_existing_datasources: template variables called "app" and inputs of
\* Prometheus are deleted.
Stripped(d) ==
    LET list   == DeletedWhileIterating(d.templating, {v \in ToSet(d.templating) : v.name = "app"})
        inputs == DeletedWhileIterating(d.inputs, {v \in ToSet(d.inputs) : v.query = "prometheus"})
    IN  [dashboard |-> [d EXCEPT !.templating = list.list, !.inputs = inputs.list],
         crashed |-> list.crashed \/ inputs.crashed]

-----------------------------------------------------------------------------
Target    == [ranges : Seq(STRING), parses : BOOLEAN, confined : BOOLEAN]
Panel     == [ds : [form : {"none", "text", "object"}, name : STRING, braced : BOOLEAN, kind : STRING],
              targets : Seq(Target)]
Variables == [name : STRING, type : STRING, query : STRING]
Dashboard == [uid : STRING, inputs : Seq(Variables), templated : BOOLEAN,
              templating : Seq(Variables), panels : Seq(Panel), rows : Seq(Seq(Panel))]
Templates == [content : Dashboard, altUid : STRING, inject : BOOLEAN]

\* A panel whose datasource the dashboard declares to be a Prometheus or a Loki
\* ends at the dropdown of that kind, and no panel is left with a dropdown, or a
\* template variable, that is not there, unless a panel of the dashboard refers
\* without braces to a dropdown that the dashboard declares itself.
Resolved(t) ==
    LET before  == PanelsOf(t.content)   after == PanelsOf(Rendered(t))
        sources == Sources(t.content)
        names(l) == {v.name : v \in ToSet(l)}
        Bare(p) == t.content.templated /\ Replaceable(p.ds, sources) /\ p.ds.name \in DropdownNames
    IN  \A i \in DOMAIN before : before[i].ds.form # "none" =>
            LET name == before[i].ds.name
            IN  /\ t.content.templated /\ name \in DOMAIN sources /\ sources[name] \in DOMAIN Dropdown
                      => Known(after[i].ds) /\ (Known(before[i].ds) \/ after[i].ds.name = Dropdown[sources[name]])
                /\ \/ Known(after[i].ds)
                   \/ after[i].ds.name \in names(t.content.templating)
                   => \/ after[i].ds.name \in names(Rendered(t).templating)
                      \/ \E p \in ToSet(before) : Bare(p)

\* The template says what the panel shows: a Prometheus or a Loki.
Recognised(ds, d) ==
    /\ ds.form # "none"
    /\ \/ Known(ds)
       \/ d.templated /\ ds.name \in DOMAIN Sources(d) /\ Sources(d)[ds.name] \in DOMAIN Dropdown
       \/ ~d.templated /\ ds.kind \in DOMAIN Dropdown

AllConfined(before, after, d) ==
    \A i \in DOMAIN before : Recognised(before[i].ds, d) =>
        \A j \in DOMAIN before[i].targets : before[i].targets[j].parses => after[i].targets[j].confined

\* Every query that cos-tool parses, of a top-level panel whose template says
\* that it shows a Prometheus or a Loki, reaches Grafana confined to the
\* topology, where there is one.
Confined(t) == t.inject => AllConfined(t.content.panels, Rendered(t).panels, t.content)

\* The ranges of a query come back as they were and in their order.
RangesKept(t) ==
    \A i \in DOMAIN t.content.panels : \A j \in DOMAIN t.content.panels[i].targets :
        LET ranges == t.content.panels[i].targets[j].ranges
        IN  Held \notin ToSet(ranges) => Rendered(t).panels[i].targets[j].ranges = ranges
=============================================================================
