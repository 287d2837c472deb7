------------------------------- MODULE LogProxy -------------------------------
(***************************************************************************)
(* LogProxyConsumer (loki_push_api.py): one unit of a charm that runs      *)
(* promtail in each of its containers and points it at the Loki endpoints  *)
(* of its "log-proxy" relations.  A relation stands for its one unit of    *)
(* Loki as well.  A container is a record: it has the promtail layer, the  *)
(* binary, a configuration (its clients), and promtail runs with one.      *)
(***************************************************************************)
EXTENDS Naturals, SequencesExt

CONSTANTS
    Scheme,  \* the containers, in the order of logs_scheme
    Order,   \* the relations, in the order in which Juju lists them
    Urls,
    MaySpend \* how often the environment takes each of its steps, and how many ("all")

Containers == ToSet(Scheme)
Relations  == ToSet(Order)
EnvSteps   == {"relate", "announce", "publish", "report", "remove", "stop", "offline",
               "leader", "all"}
None       == "none"
Off        == {None} \* promtail does not run, or has no configuration

VARIABLES
    related,  \* relations that exist
    seen,     \* those whose Loki unit the hooks see
    url,      \* url[r]: the endpoint that the Loki unit publishes
    binaries, \* relations whose Loki has said where the binary is
    errors,   \* those in whose data Loki has reported errors of the alert rules
    up,       \* containers that can be connected to
    box,      \* box[c]: container c
    fetched,  \* the binary is in the charm's own container
    network,  \* a download works, is refused, or breaks off
    leads,    \* the unit leads
    todo,     \* events queued for the unit
    stuck,    \* the event whose hook has failed, and which comes first now
    used

lokis == <<related, url, binaries, errors>>
unit  == <<seen, up, box, fetched, stuck>>
env   == <<network, leads>>
vars  == <<lokis, unit, env, todo, used>>

Empty  == [layer |-> FALSE, binary |-> FALSE, config |-> Off, runs |-> Off]
Events == ({"created", "changed", "departed"} \X Relations) \cup ({"ready"} \X Containers)
NoEvent == <<"none", None>>

\* A URL that is published is not "none".
ConstantsOK == None \notin Urls

\* loki_endpoints, for the units V
Clients(V) == {url[r] : r \in V} \ {None}

\* The binary is looked for in the first relation.
HasBinaries ==
    \E i \in DOMAIN Order : /\ Order[i] \in related \cap binaries
                            /\ \A j \in 1 .. i - 1 : Order[j] \notin related
Obtainable == fetched \/ network = "up"

\* Only a URLError is caught around the download: one that breaks off raises.
BreaksOff(b) == ~b.binary /\ ~fetched /\ network = "flaky"

\* _setup_promtail: a download that is refused is reported and passed over, and
\* so is that promtail then does not start.
SetUp(b, clients) ==
    LET binary == b.binary \/ Obtainable
    IN  [raises |-> HasBinaries /\ BreaksOff(b),
         box |-> IF ~HasBinaries \/ BreaksOff(b) THEN b
                 ELSE [layer |-> TRUE, binary |-> binary, config |-> clients,
                       runs |-> IF clients # {} /\ binary THEN clients ELSE b.runs]]

Starts(b) == b.layer /\ b.binary

\* mutation: the layer is taken to be there
ChangedUnchecked(b, clients) ==
    [box |-> [b EXCEPT !.config = clients,
                       !.runs = IF clients # {} /\ Starts(b) THEN clients ELSE @],
     raises |-> clients # {} /\ ~Starts(b)]

\* What relation_changed and _departed do in a container, and whether the
\* call raises there.
Changed(b, clients) ==
    IF ~b.layer THEN SetUp(b, clients)
    ELSE [box |-> [b EXCEPT !.config = clients,
                            !.runs = IF clients # {} /\ Starts(b) THEN clients ELSE @],
          raises |-> clients # {} /\ ~Starts(b)]

\* mutation: promtail goes on when the last endpoint is gone
DepartedRunning(b, clients) ==
    [box |-> [b EXCEPT !.config = clients,
                       !.runs = IF clients = {} \/ ~Starts(b) THEN @ ELSE clients],
     raises |-> IF clients = {} THEN ~b.layer ELSE ~Starts(b)]

Departed(b, clients) ==
    [box |-> [b EXCEPT !.config = clients,
                       !.runs = IF clients = {} THEN Off ELSE IF Starts(b) THEN clients ELSE @],
     raises |-> IF clients = {} THEN ~b.layer ELSE ~Starts(b)]

Outcome(e, c, V) ==
    IF c \notin up THEN [box |-> box[c], raises |-> e = <<"ready", c>> /\ HasBinaries]
    ELSE CASE e[1] = "created" \/ (e = <<"ready", c>> /\ related # {}) ->
                SetUp(box[c], Clients(V))
           [] e[1] = "changed" -> Changed(box[c], Clients(V))
           [] e[1] = "departed" -> Departed(box[c], Clients(V))
           [] OTHER -> [box |-> box[c], raises |-> FALSE]

\* The leader passes Loki's errors on as an event that LogProxyEvents lacks.
Rejected(e) == e[1] = "changed" /\ leads /\ e[2] \in errors

\* A hook; it ends before the containers or at the first that raises, what was
\* done before stays, and Juju runs it again before any other.
Handle(e) ==
    LET V == CASE e[1] = "changed" -> seen \cup {e[2]}
               [] e[1] = "departed" -> seen \ {e[2]}
               [] OTHER -> seen
        failing == {i \in DOMAIN Scheme : Outcome(e, Scheme[i], V).raises}
        done == {Scheme[i] : i \in {j \in DOMAIN Scheme : ~Rejected(e) /\ \A k \in failing : j <= k}}
        ends == ~Rejected(e) /\ failing = {}
    IN  /\ e \in todo /\ stuck \in {NoEvent, e}
        /\ e[1] = "changed" => <<"created", e[2]>> \notin todo
        /\ seen' = V
        /\ box' = [c \in Containers |-> IF c \in done THEN Outcome(e, c, V).box ELSE box[c]]
        /\ fetched' = (fetched \/ \E c \in Containers : box'[c].binary)
        /\ stuck' = IF ends THEN NoEvent ELSE e
        /\ todo' = IF ends THEN todo \ {e} ELSE todo
        /\ UNCHANGED <<lokis, up, env, used>>

-----------------------------------------------------------------------------
Spend(k) ==
    /\ used[k] < MaySpend[k] /\ used["all"] < MaySpend["all"]
    /\ used' = [used EXCEPT ![k] = @ + 1, !["all"] = @ + 1]

Relate(r) ==
    /\ Spend("relate")
    /\ r \notin related /\ <<"departed", r>> \notin todo
    /\ related' = related \cup {r}
    /\ todo' = todo \cup {<<"created", r>>, <<"changed", r>>}
    /\ UNCHANGED <<url, binaries, errors, unit, env>>

Announce(r) ==
    /\ Spend("announce")
    /\ r \in related \ binaries /\ binaries' = binaries \cup {r}
    /\ todo' = todo \cup {<<"changed", r>>}
    /\ UNCHANGED <<related, url, errors, unit, env>>

Publish(r, a) ==
    /\ Spend("publish")
    /\ r \in related /\ url[r] # a /\ url' = [url EXCEPT ![r] = a]
    /\ todo' = todo \cup {<<"changed", r>>}
    /\ UNCHANGED <<related, binaries, errors, unit, env>>

\* LokiPushApiProvider.alerts; what it has reported it does not take back.
Report(r) ==
    /\ Spend("report")
    /\ r \in related \ errors /\ errors' = errors \cup {r}
    /\ todo' = todo \cup {<<"changed", r>>}
    /\ UNCHANGED <<related, url, binaries, unit, env>>

\* What is queued for the relation is dropped, but for a hook that runs.
Break(r) ==
    /\ Spend("remove")
    /\ r \in related /\ (stuck # NoEvent => stuck[2] # r)
    /\ related' = related \ {r}
    /\ url' = [url EXCEPT ![r] = None] /\ binaries' = binaries \ {r}
    /\ errors' = errors \ {r}
    /\ todo' = (todo \ {<<"created", r>>, <<"changed", r>>})
                 \cup IF r \in seen THEN {<<"departed", r>>} ELSE {}
    /\ UNCHANGED <<unit, env>>

\* What a container holds goes with it.
Stop(c) ==
    /\ Spend("stop")
    /\ c \in up /\ up' = up \ {c} /\ box' = [box EXCEPT ![c] = Empty]
    /\ UNCHANGED <<lokis, seen, fetched, stuck, env, todo>>

Start(c) ==
    /\ c \notin up /\ up' = up \cup {c}
    /\ todo' = todo \cup {<<"ready", c>>}
    /\ UNCHANGED <<lokis, seen, box, fetched, stuck, env, used>>

GoOffline ==
    /\ Spend("offline")
    /\ network = "up" /\ network' \in {"down", "flaky"}
    /\ UNCHANGED <<lokis, unit, leads, todo>>
GoOnline == network # "up" /\ network' = "up" /\ UNCHANGED <<lokis, unit, leads, todo, used>>

LeaderMoves == Spend("leader") /\ leads' = ~leads /\ UNCHANGED <<lokis, unit, network, todo>>

Init ==
    /\ related = {} /\ seen = {} /\ binaries = {} /\ errors = {}
    /\ url = [r \in Relations |-> None]
    /\ up = {} /\ box = [c \in Containers |-> Empty]
    /\ fetched = FALSE /\ network = "up" /\ leads \in BOOLEAN
    /\ todo = {} /\ stuck = NoEvent
    /\ used = [k \in EnvSteps |-> 0]

Next ==
    \/ \E e \in Events : Handle(e)
    \/ \E r \in Relations : \/ Relate(r) \/ Announce(r) \/ Report(r) \/ Break(r)
                            \/ \E a \in Urls : Publish(r, a)
    \/ \E c \in Containers : Stop(c) \/ Start(c)
    \/ GoOffline \/ GoOnline \/ LeaderMoves

Spec == Init /\ [][Next]_vars

-----------------------------------------------------------------------------
\* With all events handled, and as long as the binary could be downloaded,
\* promtail runs with the endpoints of the day in every container that has been
\* set up, and does not run when there are none.  All are set up once the first
\* relation says where the binary is, unless a relation was removed: that the
\* one that has not said so is gone is noticed with its unit only.
ProxyCurrent ==
    todo = {} /\ used["offline"] = 0 => \A c \in up :
        /\ Clients(related) = {} => box[c].runs = Off
        /\ Clients(related) # {} /\ (box[c].layer \/ (HasBinaries /\ used["remove"] = 0))
              => box[c].runs = Clients(related)

\* A hook raises where relation_departed meets a container that was never set
\* up, where pebble-ready comes late and the container is down again, where a
\* download breaks off, or where promtail was installed without its binary.
\* While downloads work, no order of Loki's data and of the containers makes
\* relation_changed raise, but for the errors that Loki reports in it.
OnlyReportsFailChanged ==
    stuck[1] = "changed" => used["offline"] > 0 \/ stuck[2] \in errors

\* "Event emitted when alert rule files are not parsable.  Enables us to set a
\* clear status on the provider." (loki_push_api.py:1111-1113): what Loki reports
\* is passed on, and fails no hook.
ReportsAreHandled == stuck[1] = "changed" => stuck[2] \notin errors
=============================================================================
