------------------------------- MODULE LokiPush -------------------------------
(***************************************************************************)
(* The "logging" relations of loki_push_api.py from Loki's side: the units *)
(* of Loki with a LokiPushApiProvider, and for each relation one unit of a *)
(* client with a LokiPushApiConsumer, whose AlertRules it reads from disk, *)
(* labels and publishes.                                                   *)
(***************************************************************************)
EXTENDS Naturals, SequencesExt

CONSTANTS
    Lokis,     \* units of Loki
    Order,     \* the relations, in the order in which Juju lists them
    Labelled,  \* relations whose client labels its rules with its topology
    Urls,
    Disks,     \* rule directories: sequences of [dir, stem, format, groups]
    MaySpend   \* how often the environment takes each of its steps

EnvSteps == {"relate", "break", "depart", "replace", "upgrade", "leader", "all"}
None     == "none"
NoRules  == <<[name |-> None]>>

Relations == ToSet(Order)
IsBefore(q, r) == \E i, j \in DOMAIN Order : i < j /\ Order[i] = q /\ Order[j] = r

-----------------------------------------------------------------------------
(* AlertRules *)

\* _from_file: a file may hold groups, or a single rule, which makes a group
\* of the file's name; one that does not parse is passed over.
GroupsOf(f) ==
    CASE f.format = "official" -> f.groups
      [] f.format = "single" -> <<[name |-> f.stem, rules |-> f.groups[1].rules]>>
      [] OTHER -> <<>>

\* The group is named for the topology, the directory and itself; its rules
\* are given the topology labels they do not have, and confined to them.
Annotated(g, dir, app) ==
    IF app \notin Labelled
    THEN [g EXCEPT !.name = <<dir, @, "alerts">>]
    ELSE [name |-> <<app, dir, g.name, "alerts">>,
          rules |-> [i \in DOMAIN g.rules |->
            [g.rules[i] EXCEPT !.labels = @ @@ [application |-> app], !.scope = app]]]

\* add_path and as_dict
AlertRules(disk, app) ==
    FlattenSeq([i \in DOMAIN disk |->
        [j \in DOMAIN GroupsOf(disk[i]) |-> Annotated(GroupsOf(disk[i])[j], disk[i].dir, app)]])

\* What cos-tool says of the rules of a relation.
Valid(groups) == \A i \in DOMAIN groups : \A j \in DOMAIN groups[i].rules : groups[i].rules[j].valid

-----------------------------------------------------------------------------
VARIABLES
    leader,   \* of Loki
    url,      \* url[l]: where Loki unit l listens
    related,  \* relations that exist
    disk,     \* disk[r]: the rule files of the client's revision
    endpoint, \* endpoint[r][l]: the URL that l has published
    binaries, \* relations that hold the URL of the promtail binary
    rules,    \* rules[r]: the alert rules that the client has published
    event,    \* relations in which Loki reports invalid rules
    told,     \* clients that know of it
    files,    \* files[l]: the rule files that l has written
    todo,     \* todo[x]: events queued for Loki unit or client x
    used

loki   == <<leader, url, files>>
client == <<disk, told>>
data   == <<endpoint, binaries, rules, event>>
vars   == <<loki, related, client, data, todo, used>>

Actors == Lokis \cup Relations
Events == {"joined", "changed", "departed", "broken", "upgrade"} \X (Relations \cup {None})

\* Loki units are no relations, and rules that were published are told from
\* none at all, even where there are none in them.
ConstantsOK ==
    /\ Lokis # {} /\ Urls # {} /\ Lokis \cap Relations = {} /\ None \notin Relations
    /\ \A d \in Disks, r \in Relations : AlertRules(d, r) # NoRules

Told(xs, e) == [x \in Actors |-> IF x \in xs THEN todo[x] \cup {e} ELSE todo[x]]
Without(q, x, e) == [q EXCEPT ![x] = @ \ {e}]

HasRules(r) == rules[r] # NoRules
Invalid     == {r \in related : HasRules(r) /\ ~Valid(rules[r])}
\* The alerts property.  Rules without topology are taken before they are
\* validated.
Alerts      == {<<r, rules[r]>> : r \in {q \in related :
    HasRules(q) /\ rules[q] # <<>> /\ (q \in Labelled => q \notin Invalid)}}

\* mutation: the relations of an upgraded unit are all left as they are
ProcessesOnChange(e) == IF e[1] = "changed" THEN {e[2]} \cap related ELSE {}

\* The relations whose endpoint an event has the unit publish; those of an
\* upgraded unit are taken in order, up to the first that has rules ("should_
\* update or ..." does not evaluate the rest).
Processes(e) ==
    CASE e[1] = "changed" -> {e[2]} \cap related
      [] e[1] = "upgrade" -> {r \in related : \A q \in related : IsBefore(q, r) => ~HasRules(q)}
      [] OTHER -> {}

\* mutation: the rules of a relation that is gone stay
RefreshesOnRules(e) == \E r \in Processes(e) : HasRules(r)

\* alert_rules_changed is emitted, on which the charm takes alerts.
Refreshes(e) == e[1] \in {"departed", "broken"} \/ \E r \in Processes(e) : HasRules(r)

\* mutation: the first relation with invalid rules ends the search
ReportedFirst(e) == {r \in Invalid : \A q \in Invalid : ~IsBefore(q, r)}

\* Whatever has led to it, the alerts property goes through all relations.
Reported(e) == Invalid

\* A hook of Loki unit l.  Only the leader may report errors: on another unit
\* the attempt raises, the hook fails and nothing of it is kept.
Handle(l, e) ==
    /\ l \in Lokis /\ e \in todo[l]
    /\ e[1] = "changed" => <<"joined", e[2]>> \notin todo[l]
    /\ e[1] = "broken" => <<"departed", e[2]>> \notin todo[l]
    /\ Refreshes(e) => l = leader \/ Invalid = {}
    /\ binaries' = IF e[1] = "joined" /\ l = leader THEN binaries \cup {e[2]} ELSE binaries
    /\ endpoint' = [r \in Relations |-> IF r \in Processes(e)
                      THEN [endpoint[r] EXCEPT ![l] = url[l]] ELSE endpoint[r]]
    /\ files' = IF Refreshes(e) THEN [files EXCEPT ![l] = Alerts] ELSE files
    /\ event' = IF Refreshes(e) THEN event \cup Reported(e) ELSE event
    /\ todo' = Without(Told(event' \ event, <<"changed", None>>), l, e)
    /\ UNCHANGED <<leader, url, related, client, rules, used>>

\* A hook of the client of relation r.
HandleClient(r, e) ==
    /\ r \in Relations /\ e \in todo[r]
    /\ rules' = IF e[1] \in {"joined", "upgrade"} THEN [rules EXCEPT ![r] = AlertRules(disk[r], r)]
                ELSE rules
    /\ told' = IF e[1] = "changed" /\ r \in event THEN told \cup {r} ELSE told
    /\ todo' = Without(IF rules' # rules THEN Told(Lokis, <<"changed", r>>) ELSE todo, r, e)
    /\ UNCHANGED <<loki, related, disk, endpoint, binaries, event, used>>

-----------------------------------------------------------------------------
Spend(k) ==
    /\ used[k] < MaySpend[k] /\ used["all"] < MaySpend["all"]
    /\ used' = [used EXCEPT ![k] = @ + 1, !["all"] = @ + 1]

Relate(r) ==
    /\ Spend("relate")
    /\ r \notin related /\ \A x \in Actors : \A e \in todo[x] : e[2] # r
    /\ related' = related \cup {r}
    /\ todo' = [x \in Actors |-> todo[x] \cup
                  IF x \in Lokis THEN {<<"joined", r>>, <<"changed", r>>}
                  ELSE IF x = r THEN {<<"joined", None>>} ELSE {}]
    /\ UNCHANGED <<loki, client, data>>

Break(r) ==
    /\ Spend("break")
    /\ r \in related
    /\ related' = related \ {r}
    /\ rules' = [rules EXCEPT ![r] = NoRules]
    /\ endpoint' = [endpoint EXCEPT ![r] = [l \in Lokis |-> None]]
    /\ binaries' = binaries \ {r} /\ event' = event \ {r} /\ told' = told \ {r}
    /\ todo' = [x \in Actors |->
                  IF x = r THEN {}
                  ELSE IF x \in Lokis THEN (todo[x] \ {<<"joined", r>>, <<"changed", r>>}) \cup {<<"broken", r>>}
                  ELSE todo[x]]
    /\ UNCHANGED <<loki, disk>>

\* A unit of the client goes, and others of its units stay.
Depart(r) ==
    /\ Spend("depart")
    /\ r \in related
    /\ todo' = Told(Lokis, <<"departed", r>>)
    /\ UNCHANGED <<loki, related, client, data>>

\* A pod of Loki is replaced: it comes up elsewhere and runs upgrade_charm.
Replace(l, a) ==
    /\ Spend("replace")
    /\ url[l] # a /\ url' = [url EXCEPT ![l] = a]
    /\ todo' = Told({l}, <<"upgrade", None>>)
    /\ UNCHANGED <<leader, files, related, client, data>>

UpgradeClient(r, d) ==
    /\ Spend("upgrade")
    /\ disk[r] # d /\ disk' = [disk EXCEPT ![r] = d]
    /\ todo' = IF r \in related THEN Told({r}, <<"upgrade", None>>) ELSE todo
    /\ UNCHANGED <<loki, related, told, data>>

LeaderMoves(l) ==
    /\ Spend("leader")
    /\ leader # l /\ leader' = l
    /\ UNCHANGED <<url, files, related, client, data, todo>>

Init ==
    /\ leader = CHOOSE l \in Lokis : TRUE
    /\ url = [l \in Lokis |-> CHOOSE a \in Urls : TRUE]
    /\ related = {} /\ disk \in [Relations -> Disks]
    /\ endpoint = [r \in Relations |-> [l \in Lokis |-> None]]
    /\ binaries = {} /\ rules = [r \in Relations |-> NoRules]
    /\ event = {} /\ told = {} /\ files = [l \in Lokis |-> {}]
    /\ todo = [x \in Actors |-> {}]
    /\ used = [k \in EnvSteps |-> 0]

Next ==
    \/ \E l \in Lokis : \/ \E e \in Events : Handle(l, e)
                        \/ \E a \in Urls : Replace(l, a)
                        \/ LeaderMoves(l)
    \/ \E r \in Relations : \/ \E e \in Events : HandleClient(r, e)
                            \/ \E d \in Disks : UpgradeClient(r, d)
                            \/ Relate(r) \/ Break(r) \/ Depart(r)

Spec == Init /\ [][Next]_vars

-----------------------------------------------------------------------------
Quiet(xs) == \A x \in xs : todo[x] = {}

\* With its events handled, a Loki unit's current URL is in each relation that
\* no relation with alert rules comes before, as long as none was removed;
\* behind one, a unit whose pod was replaced may go on announcing where it was.
EndpointsCurrent ==
    used["break"] = 0 => \A l \in Lokis : Quiet({l}) => \A r \in related :
        endpoint[r][l] = url[l] \/ \E q \in related : IsBefore(q, r) /\ HasRules(q)

\* Each Loki unit then has, for every client whose rules are valid, the rules
\* of every readable file of its current revision, named and confined to the
\* client, and no rules of clients that are gone.
RulesCurrent ==
    \A l \in Lokis : Quiet({l} \cup Relations) =>
        files[l] = {<<r, AlertRules(disk[r], r)>> : r \in {q \in related :
            AlertRules(disk[q], q) # <<>> /\ (q \in Labelled => Valid(AlertRules(disk[q], q)))}}

\* A client whose rules Loki cannot use has been told so, as long as the same
\* unit of Loki leads; the hooks of the others fail over such rules.
ErrorsReachClient ==
    Quiet({leader} \cup Relations) /\ used["leader"] = 0 => Invalid \subseteq told
=============================================================================
