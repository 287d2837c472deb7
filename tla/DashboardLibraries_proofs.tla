----------------------- MODULE DashboardLibraries_proofs ----------------------
(* What TLAPS proves of GrafanaDashboards and DashboardAggregator: for any  *)
(* units, dashboards and relations, and however often the environment acts. *)
EXTENDS Libraries, TLAPS

-----------------------------------------------------------------------------
(* GrafanaDashboards *)


\* What a provider unit, and a unit of Grafana, may be told.
ProviderEvents == ({"created", "changed"} \X boards.Relations) \cup {<<"scan", NoValue>>}
GrafanaEvents  == ({"changed", "broken"} \X boards.Relations) \cup {<<"peer", NoValue>>}

BoardsTypeOK ==
    /\ leads \subseteq Boards!Units
    /\ disk \in [boards.Providers -> boards.Contents \cup {NoValue}]
    /\ stored \in [boards.Providers -> SUBSET Boards!Template]
    /\ told \in [boards.Providers -> SUBSET Boards!Template]
    /\ related \subseteq boards.Relations
    /\ board \in [boards.Relations -> {NoValue} \cup SUBSET Boards!Template]
    /\ errors \in [boards.Relations -> SUBSET Boards!Template]
    /\ peer \in [boards.Relations -> {NoValue} \cup SUBSET Boards!Template]
    /\ shown \in [boards.Grafanas -> SUBSET (boards.Relations \X Boards!Template)]
    /\ todo \in [Boards!Units -> SUBSET (ProviderEvents \cup GrafanaEvents)]
    /\ used \in [Boards!EnvSteps -> Nat]

\* Each application has one unit that leads.
OneLead(us) == \E u \in us : leads \cap us = {u}
LeadsInv == OneLead(boards.Providers) /\ OneLead(boards.Grafanas)

\* Events reach the units they are for, of relations that are there or gone.
BoardsTodoInv ==
    /\ \A p \in boards.Providers : todo[p] \subseteq ProviderEvents
    /\ \A g \in boards.Grafanas :
         /\ todo[g] \subseteq GrafanaEvents
         /\ \A r \in boards.Relations : /\ <<"changed", r>> \in todo[g] => r \in related
                                        /\ <<"broken", r>> \in todo[g] => r \notin related

\* A provider unit's StoredState agrees with its disk, and the relations with
\* the leader's, or the unit has yet to scan.
StoredInv ==
    \A u \in boards.Providers :
        stored[u] = Boards!Programmed(u) \cup Boards!OnDisk(u) \/ <<"scan", NoValue>> \in todo[u]
BoardInv ==
    \A u \in boards.Providers \cap leads : \A r \in related :
        \/ board[r] = Boards!OnDisk(u) \cup Boards!Programmed(u)
        \/ {<<"scan", NoValue>>, <<"created", r>>} \cap todo[u] # {}

ProviderInv == BoardsTypeOK /\ LeadsInv /\ BoardsTodoInv /\ StoredInv /\ BoardInv

\* What Grafana makes of the templates ts of a relation.
PeerOf(ts) == IF Boards!InvalidIn(ts) # {} THEN NoValue ELSE Boards!RenderedOf(ts)

\* While one unit of Grafana leads, the peer data is what it makes of the
\* relations, but for those of which it has yet to hear; a relation that is
\* gone holds nothing, so that a new one starts with nothing.
PeerInv ==
    used["grafana"] = 0 => \A g \in boards.Grafanas \cap leads : \A r \in boards.Relations :
        /\ r \notin related => /\ board[r] = NoValue
                               /\ peer[r] = NoValue \/ <<"broken", r>> \in todo[g]
        /\ r \in related =>
             IF board[r] = NoValue THEN peer[r] = NoValue
             ELSE \/ <<"changed", r>> \in todo[g]
                  \/ peer[r] = PeerOf(board[r]) /\ Boards!InvalidIn(board[r]) \subseteq errors[r]

\* A unit of Grafana shows what the peer data holds, or has yet to reload it.
ShownInv ==
    used["grafana"] = 0 => \A g \in boards.Grafanas :
        shown[g] = Boards!Loaded(peer) \/ (g \notin leads /\ <<"peer", NoValue>> \in todo[g])

\* While one provider unit leads, it has been told what Grafana reports.
ToldInv ==
    used["leader"] = 0 => \A u \in boards.Providers \cap leads : \A r \in boards.Relations :
        errors[r] \subseteq told[u] \/ <<"changed", r>> \in todo[u]

BoardsGrafanaInv == PeerInv /\ ShownInv /\ ToldInv

-----------------------------------------------------------------------------
\* Events of different kinds, or of different relations, differ.
LEMMA BoardsEventsDiffer ==
    ASSUME NEW r, NEW q
    PROVE  /\ <<"created", r>> # <<"changed", q>> /\ <<"changed", r>> # <<"broken", q>>
           /\ <<"scan", NoValue>> \notin {<<"created", r>>, <<"changed", r>>, <<"broken", r>>}
           /\ <<"peer", NoValue>> \notin {<<"created", r>>, <<"changed", r>>, <<"broken", r>>}
           /\ <<"scan", NoValue>> # <<"peer", NoValue>>
           /\ r # q => /\ <<"created", r>> # <<"created", q>> /\ <<"changed", r>> # <<"changed", q>>
                       /\ <<"broken", r>> # <<"broken", q>>
  OBVIOUS

LEMMA EventKinds ==
    /\ \A e \in ProviderEvents :
         \/ \E r \in boards.Relations : e = <<"created", r>> \/ e = <<"changed", r>>
         \/ e = <<"scan", NoValue>>
    /\ \A e \in GrafanaEvents :
         \/ \E r \in boards.Relations : e = <<"changed", r>> \/ e = <<"broken", r>>
         \/ e = <<"peer", NoValue>>
    /\ \A r \in boards.Relations :
         /\ <<"created", r>> \in ProviderEvents /\ <<"changed", r>> \in ProviderEvents
         /\ <<"changed", r>> \in GrafanaEvents /\ <<"broken", r>> \in GrafanaEvents
    /\ <<"scan", NoValue>> \in ProviderEvents /\ <<"peer", NoValue>> \in GrafanaEvents
  BY DEF ProviderEvents, GrafanaEvents

\* A step of the environment is counted.
LEMMA SpendCounts ==
    ASSUME BoardsTypeOK, NEW k \in Boards!EnvSteps, Boards!Spend(k)
    PROVE  /\ used' \in [Boards!EnvSteps -> Nat] /\ used'[k] # 0
           /\ \A j \in Boards!EnvSteps : used'[j] = 0 => used[j] = 0
<1>1. used' = [used EXCEPT ![k] = used[k] + 1, !["all"] = used["all"] + 1]
  BY DEF Boards!Spend
<1>2. used \in [Boards!EnvSteps -> Nat] /\ "all" \in Boards!EnvSteps
  BY DEF BoardsTypeOK, Boards!EnvSteps
<1>3. \A j \in Boards!EnvSteps : used'[j] \in {used[j], used[j] + 1, used[j] + 2}
  BY <1>1, <1>2
<1>4. used'[k] # used[k] /\ used'[k] \in {used[k] + 1, used[k] + 2}
  BY <1>1, <1>2
<1>5. used' \in [Boards!EnvSteps -> Nat]
  BY <1>1, <1>2
<1>6. QED BY <1>2, <1>3, <1>4, <1>5

\* The templates a unit holds are templates.
LEMMA TemplateTypes ==
    ASSUME BoardsTypeOK, NEW u \in boards.Providers
    PROVE  /\ Boards!Programmed(u) \subseteq stored[u] /\ Boards!Programmed(u) \in SUBSET Boards!Template
           /\ Boards!OnDisk(u) \in SUBSET Boards!Template
           /\ \A c \in boards.Contents : [kind |-> "prog", content |-> c] \in Boards!Template
  BY DEF BoardsTypeOK, Boards!Programmed, Boards!OnDisk, Boards!Template

\* The file templates are not programmed, and the other way round.
LEMMA ScannedTemplates ==
    ASSUME BoardsTypeOK,
           NEW u \in boards.Providers, stored'[u] = Boards!Programmed(u) \cup Boards!OnDisk(u)
    PROVE  Boards!Programmed(u)' = Boards!Programmed(u)
<1>1. \A t \in Boards!OnDisk(u) : t.kind # "prog"
  BY DEF Boards!OnDisk
<1>2. \A t \in Boards!Programmed(u) : t.kind = "prog"
  BY DEF Boards!Programmed
<1>3. Boards!Programmed(u)' = {t \in stored'[u] : t.kind = "prog"}
  BY DEF Boards!Programmed
<1>4. QED BY <1>1, <1>2, <1>3


-----------------------------------------------------------------------------
(* Provider units *)

\* Nothing was taken back of what the environment did.
UsedKept == used' \in [Boards!EnvSteps -> Nat] /\ \A k \in Boards!EnvSteps : used'[k] = 0 => used[k] = 0

\* The templates ts are in every relation and Grafana hears of it, or nothing
\* is published.
Published(ts) ==
    /\ \A r \in related : board'[r] = ts
    /\ \A r \in boards.Relations \ related : board'[r] = board[r]
    /\ \A g \in boards.Grafanas : todo'[g] = todo[g] \cup {<<"changed", r>> : r \in related}
Unpublished == board' = board /\ \A g \in boards.Grafanas : todo'[g] = todo[g]

\* Unit u, which has handled the events es, has the templates ts.
Supplied(u, es, ts) ==
    /\ todo'[u] = todo[u] \ es
    /\ \A v \in boards.Providers \ {u} : todo'[v] = todo[v] /\ stored'[v] = stored[v]
    /\ stored'[u] = ts
    /\ IF Boards!Leads(u) THEN Published(ts) ELSE Unpublished

LEMMA UpsetEffect ==
    ASSUME BoardsTypeOK, boards.Providers \cap boards.Grafanas = {}, NEW u \in boards.Providers,
           NEW ts \in SUBSET Boards!Template,
           NEW es, Boards!Upset(u, ts, es), stored' = [stored EXCEPT ![u] = ts]
    PROVE  /\ Boards!Leads(u) => Supplied(u, es, ts)
           /\ ~Boards!Leads(u) => Supplied(u, {}, ts)
           /\ board' \in [boards.Relations -> {NoValue} \cup SUBSET Boards!Template]
           /\ todo' \in [Boards!Units -> SUBSET (ProviderEvents \cup GrafanaEvents)]
           /\ stored' \in [boards.Providers -> SUBSET Boards!Template]
<1>1. stored'[u] = ts /\ \A v \in boards.Providers \ {u} : stored'[v] = stored[v]
  BY DEF BoardsTypeOK
<1>2. stored' \in [boards.Providers -> SUBSET Boards!Template] BY DEF BoardsTypeOK
<1>3. CASE ~Boards!Leads(u)
  <2>1. board' = board /\ todo' = todo BY <1>3 DEF Boards!Upset
  <2>2. QED BY <1>1, <1>2, <1>3, <2>1 DEF Supplied, Unpublished, BoardsTypeOK
<1>4. CASE Boards!Leads(u)
  <2>1. /\ board' = [r \in boards.Relations |-> IF r \in related THEN ts ELSE board[r]]
        /\ todo' = [v \in Boards!Units |-> IF v \in boards.Grafanas
                     THEN todo[v] \cup {<<"changed", r>> : r \in related}
                     ELSE todo[v] \ IF v = u THEN es ELSE {}]
    BY <1>4 DEF Boards!Upset
  <2>2. board' \in [boards.Relations -> {NoValue} \cup SUBSET Boards!Template]
    BY <2>1 DEF BoardsTypeOK
  <2>3. \A r \in related : r \in boards.Relations /\ <<"changed", r>> \in GrafanaEvents
    BY EventKinds DEF BoardsTypeOK
  <2>4. ASSUME NEW v \in Boards!Units
        PROVE  todo'[v] \subseteq ProviderEvents \cup GrafanaEvents
    BY <2>1, <2>3 DEF BoardsTypeOK
  <2>5. todo' \in [Boards!Units -> SUBSET (ProviderEvents \cup GrafanaEvents)]
    BY <2>1, <2>4
  <2>6. Published(ts) BY <2>1, <2>3 DEF Published, Boards!Units
  <2>7. todo'[u] = todo[u] \ es /\ \A v \in boards.Providers \ {u} : todo'[v] = todo[v]
    BY <2>1 DEF Boards!Units
  <2>8. QED BY <1>1, <1>2, <1>4, <2>2, <2>5, <2>6, <2>7 DEF Supplied
<1>5. QED BY <1>3, <1>4

\* Unit u has handled event e and done nothing to templates.
PassedOver(u, e) ==
    /\ todo'[u] = todo[u] \ {e} /\ stored' = stored /\ Unpublished
    /\ \A v \in boards.Providers \ {u} : todo'[v] = todo[v]

\* A hook of a provider unit scans, or has nothing to do with templates.
LEMMA ProvideEffect ==
    ASSUME BoardsTypeOK, BoardsTodoInv, boards.Providers \cap boards.Grafanas = {},
           NEW u \in boards.Providers, NEW e,
           Boards!Provide(u, e)
    PROVE  /\ e \in todo[u] /\ e \in ProviderEvents
           /\ \/ Supplied(u, {e}, Boards!Programmed(u) \cup Boards!OnDisk(u))
              \/ /\ PassedOver(u, e) /\ e # <<"scan", NoValue>>
                 /\ Boards!Leads(u) => \A r \in boards.Relations : e # <<"created", r>>
           /\ board' \in [boards.Relations -> {NoValue} \cup SUBSET Boards!Template]
           /\ todo' \in [Boards!Units -> SUBSET (ProviderEvents \cup GrafanaEvents)]
           /\ stored' \in [boards.Providers -> SUBSET Boards!Template]
<1> DEFINE ts == Boards!Programmed(u) \cup Boards!OnDisk(u)
<1>1. e \in todo[u] /\ e \in ProviderEvents
  BY DEF Boards!Provide, BoardsTodoInv
<1>2. ts \in SUBSET Boards!Template
  BY TemplateTypes
<1>3. CASE e[1] = "scan" \/ (e[1] = "created" /\ Boards!Leads(u))
  <2>1. Boards!Scan(u, e) BY <1>3 DEF Boards!Provide
  <2>2. stored' = [stored EXCEPT ![u] = ts] BY <2>1 DEF Boards!Scan
  <2>3. CASE Boards!Leads(u)
    <3>1. Boards!Upset(u, ts, {e}) BY <2>1, <2>3 DEF Boards!Scan
    <3>2. QED BY <1>1, <1>2, <2>2, <2>3, <3>1, UpsetEffect
  <2>4. CASE ~Boards!Leads(u)
    <3>1. todo' = [todo EXCEPT ![u] = todo[u] \ {e}] /\ board' = board
      BY <2>1, <2>4 DEF Boards!Scan
    <3>2. stored' \in [boards.Providers -> SUBSET Boards!Template] /\ stored'[u] = ts
      BY <1>2, <2>2 DEF BoardsTypeOK
    <3>3. /\ todo' \in [Boards!Units -> SUBSET (ProviderEvents \cup GrafanaEvents)]
          /\ todo'[u] = todo[u] \ {e}
          /\ \A v \in Boards!Units \ {u} : todo'[v] = todo[v]
      BY <3>1 DEF BoardsTypeOK, Boards!Units
    <3>4. \A v \in boards.Providers \ {u} : stored'[v] = stored[v]
      BY <2>2 DEF BoardsTypeOK
    <3>5. Supplied(u, {e}, ts)
      BY <2>4, <3>1, <3>2, <3>3, <3>4 DEF Supplied, Unpublished, Boards!Units
    <3>6. QED BY <1>1, <3>1, <3>2, <3>3, <3>5 DEF BoardsTypeOK
  <2>5. QED BY <2>3, <2>4
<1>4. CASE ~(e[1] = "scan" \/ (e[1] = "created" /\ Boards!Leads(u)))
  <2>1. todo' = [todo EXCEPT ![u] = todo[u] \ {e}] /\ stored' = stored /\ board' = board
    BY <1>4 DEF Boards!Provide
  <2>2. /\ todo' \in [Boards!Units -> SUBSET (ProviderEvents \cup GrafanaEvents)]
        /\ todo'[u] = todo[u] \ {e}
        /\ \A v \in Boards!Units \ {u} : todo'[v] = todo[v]
    BY <2>1 DEF BoardsTypeOK, Boards!Units
  <2>3. PassedOver(u, e)
    BY <2>1, <2>2 DEF PassedOver, Unpublished, Boards!Units
  <2>4. e # <<"scan", NoValue>> /\ (Boards!Leads(u) => \A r \in boards.Relations : e # <<"created", r>>)
    BY <1>4
  <2>5. QED BY <1>1, <2>1, <2>2, <2>3, <2>4 DEF BoardsTypeOK
<1>5. QED BY <1>3, <1>4

\* A unit that has scanned, and published if it leads, is up to date.
LEMMA ScannedCurrent ==
    ASSUME ProviderInv, NEW u \in boards.Providers, NEW es,
           Supplied(u, es, Boards!Programmed(u) \cup Boards!OnDisk(u)), UNCHANGED <<leads, related, disk>>
    PROVE  StoredInv' /\ BoardInv'
<1> DEFINE ts == Boards!Programmed(u) \cup Boards!OnDisk(u)
<1>1. BoardsTypeOK /\ StoredInv /\ BoardInv BY DEF ProviderInv
<1>2. /\ stored'[u] = ts
      /\ \A v \in boards.Providers \ {u} : todo'[v] = todo[v] /\ stored'[v] = stored[v]
  BY DEF Supplied
<1>3. /\ Boards!Programmed(u)' = Boards!Programmed(u) /\ Boards!OnDisk(u)' = Boards!OnDisk(u)
      /\ \A v \in boards.Providers \ {u} : Boards!Programmed(v)' = Boards!Programmed(v) /\ Boards!OnDisk(v)' = Boards!OnDisk(v)
  BY <1>1, <1>2, ScannedTemplates DEF Boards!Programmed, Boards!OnDisk
<1>4. StoredInv'
  BY <1>1, <1>2, <1>3 DEF StoredInv
<1>5. CASE Boards!Leads(u)
  <2>1. \A r \in related : board'[r] = ts
    BY <1>5 DEF Supplied, Published
  <2>2. \A v \in boards.Providers \cap leads : v = u
    BY <1>5 DEF ProviderInv, LeadsInv, OneLead, Boards!Leads
  <2>3. QED BY <1>3, <1>4, <2>1, <2>2 DEF BoardInv
<1>6. CASE ~Boards!Leads(u)
  <2>1. board' = board BY <1>6 DEF Supplied, Unpublished
  <2>2. \A v \in boards.Providers \cap leads : v # u BY <1>6 DEF Boards!Leads
  <2>3. QED BY <1>1, <1>2, <1>3, <1>4, <2>1, <2>2 DEF BoardInv
<1>7. QED BY <1>5, <1>6

LEMMA ProvideStep ==
    ASSUME Boards!ConstantsOK, ProviderInv, NEW u \in boards.Providers, NEW e, Boards!Provide(u, e)
    PROVE  StoredInv' /\ BoardInv'
<1>1. boards.Providers \cap boards.Grafanas = {} /\ BoardsTypeOK /\ BoardsTodoInv /\ StoredInv /\ BoardInv
  BY DEF Boards!ConstantsOK, ProviderInv
<1>2. UNCHANGED <<leads, related, disk>> BY DEF Boards!Provide
<1>3. CASE Supplied(u, {e}, Boards!Programmed(u) \cup Boards!OnDisk(u))
  BY <1>2, <1>3, ScannedCurrent
<1>4. CASE /\ PassedOver(u, e) /\ e # <<"scan", NoValue>>
           /\ Boards!Leads(u) => \A r \in boards.Relations : e # <<"created", r>>
  <2>1. /\ stored' = stored /\ board' = board
        /\ \A v \in boards.Providers : <<"scan", NoValue>> \in todo[v] => <<"scan", NoValue>> \in todo'[v]
        /\ \A v \in boards.Providers \cap leads, r \in boards.Relations :
              <<"created", r>> \in todo[v] => <<"created", r>> \in todo'[v]
    BY <1>4 DEF PassedOver, Unpublished, Boards!Leads
  <2>2. \A v \in boards.Providers : Boards!Programmed(v)' = Boards!Programmed(v) /\ Boards!OnDisk(v)' = Boards!OnDisk(v)
    BY <1>2, <2>1 DEF Boards!Programmed, Boards!OnDisk
  <2>3. related \subseteq boards.Relations BY <1>1 DEF BoardsTypeOK
  <2>4. QED BY <1>1, <1>2, <2>1, <2>2, <2>3 DEF StoredInv, BoardInv
<1>5. QED BY <1>1, <1>3, <1>4, ProvideEffect

\* What the charm adds or removes leaves the files of the unit alone.
LEMMA ProgramEffect ==
    ASSUME BoardsTypeOK, boards.Providers \cap boards.Grafanas = {},
           NEW u \in boards.Providers, Boards!Program(u)
    PROVE  \E ts \in SUBSET Boards!Template :
             /\ Supplied(u, {}, ts)
             /\ stored[u] = Boards!Programmed(u) \cup Boards!OnDisk(u) =>
                  ts = {t \in ts : t.kind = "prog"} \cup Boards!OnDisk(u)
             /\ board' \in [boards.Relations -> {NoValue} \cup SUBSET Boards!Template]
             /\ todo' \in [Boards!Units -> SUBSET (ProviderEvents \cup GrafanaEvents)]
             /\ stored' \in [boards.Providers -> SUBSET Boards!Template]
<1>1. CASE Boards!RemoveNonBuiltin(u)
  <2> DEFINE ts == stored[u] \ Boards!Programmed(u)
  <2>1. ts \in SUBSET Boards!Template BY TemplateTypes DEF BoardsTypeOK
  <2>2. stored' = [stored EXCEPT ![u] = ts] /\ Boards!Upset(u, ts, {})
    BY <1>1 DEF Boards!RemoveNonBuiltin
  <2>3. stored[u] = Boards!Programmed(u) \cup Boards!OnDisk(u) => ts = {t \in ts : t.kind = "prog"} \cup Boards!OnDisk(u)
    <3>1. \A t \in Boards!OnDisk(u) : t.kind # "prog" BY DEF Boards!OnDisk
    <3>2. QED BY <3>1 DEF Boards!Programmed
  <2>4. QED BY <2>1, <2>2, <2>3, UpsetEffect
<1>2. ASSUME NEW c \in boards.Contents, Boards!AddDashboard(u, c)
      PROVE  \E ts \in SUBSET Boards!Template :
             /\ Supplied(u, {}, ts)
             /\ stored[u] = Boards!Programmed(u) \cup Boards!OnDisk(u) =>
                  ts = {t \in ts : t.kind = "prog"} \cup Boards!OnDisk(u)
             /\ board' \in [boards.Relations -> {NoValue} \cup SUBSET Boards!Template]
             /\ todo' \in [Boards!Units -> SUBSET (ProviderEvents \cup GrafanaEvents)]
             /\ stored' \in [boards.Providers -> SUBSET Boards!Template]
  <2> DEFINE new == [kind |-> "prog", content |-> c]
             ts == stored[u] \cup {new}
  <2>1. ts \in SUBSET Boards!Template BY <1>2, TemplateTypes DEF BoardsTypeOK
  <2>2. stored' = [stored EXCEPT ![u] = ts] /\ Boards!Upset(u, ts, {})
    BY <1>2 DEF Boards!AddDashboard
  <2>3. stored[u] = Boards!Programmed(u) \cup Boards!OnDisk(u) => ts = {t \in ts : t.kind = "prog"} \cup Boards!OnDisk(u)
    <3>1. new.kind = "prog" OBVIOUS
    <3>2. Boards!OnDisk(u) \subseteq stored[u] => \A t \in ts : t.kind = "prog" => t \in Boards!Programmed(u) \cup {new}
      BY DEF Boards!Programmed
    <3> HIDE DEF new
    <3>3. QED BY <3>1 DEF Boards!Programmed
  <2>4. QED BY <2>1, <2>2, <2>3, UpsetEffect
<1>3. QED BY <1>1, <1>2 DEF Boards!Program

LEMMA ProgramStep ==
    ASSUME Boards!ConstantsOK, ProviderInv, NEW u \in boards.Providers, Boards!Program(u)
    PROVE  StoredInv' /\ BoardInv'
<1>1. boards.Providers \cap boards.Grafanas = {} /\ BoardsTypeOK /\ StoredInv /\ BoardInv
  BY DEF Boards!ConstantsOK, ProviderInv
<1>2. PICK ts \in SUBSET Boards!Template :
             /\ Supplied(u, {}, ts)
             /\ stored[u] = Boards!Programmed(u) \cup Boards!OnDisk(u) =>
                  ts = {t \in ts : t.kind = "prog"} \cup Boards!OnDisk(u)
  BY <1>1, ProgramEffect
<1>3. /\ stored'[u] = ts /\ UNCHANGED <<leads, related, disk>>
      /\ \A v \in boards.Providers : todo'[v] = todo[v]
      /\ \A v \in boards.Providers \ {u} : stored'[v] = stored[v]
  BY <1>2 DEF Boards!Program, Supplied
<1>4. /\ Boards!Programmed(u)' = {t \in ts : t.kind = "prog"}
      /\ \A v \in boards.Providers : Boards!OnDisk(v)' = Boards!OnDisk(v)
      /\ \A v \in boards.Providers \ {u} : Boards!Programmed(v)' = Boards!Programmed(v)
  BY <1>3 DEF Boards!Programmed, Boards!OnDisk
<1>5. StoredInv'
  BY <1>1, <1>2, <1>3, <1>4 DEF StoredInv
<1>6. CASE Boards!Leads(u)
  <2>1. \A r \in related : board'[r] = ts
    BY <1>2, <1>6 DEF Supplied, Published
  <2>2. \A v \in boards.Providers \cap leads : v = u
    BY <1>6 DEF ProviderInv, LeadsInv, OneLead, Boards!Leads
  <2>3. QED BY <1>1, <1>2, <1>3, <1>4, <1>5, <2>1, <2>2 DEF BoardInv, StoredInv
<1>7. CASE ~Boards!Leads(u)
  <2>1. board' = board BY <1>2, <1>7 DEF Supplied, Unpublished
  <2>2. \A v \in boards.Providers \cap leads : v # u BY <1>7 DEF Boards!Leads
  <2>3. QED BY <1>1, <1>3, <1>4, <1>5, <2>1, <2>2 DEF BoardInv
<1>8. QED BY <1>6, <1>7

\* Leadership moves within an application.
LEMMA LeadsStep ==
    ASSUME Boards!ConstantsOK, BoardsTypeOK, LeadsInv, NEW u \in Boards!Units, Boards!LeaderMoves(u)
    PROVE  /\ LeadsInv' /\ leads' \subseteq Boards!Units
           /\ u \in boards.Grafanas => leads' \cap boards.Providers = leads \cap boards.Providers
           /\ u \in boards.Providers => /\ leads' \cap boards.Grafanas = leads \cap boards.Grafanas
                                        /\ leads' \cap boards.Providers = {u}
<1>1. leads' = {u} \cup {v \in leads : (v \in boards.Grafanas) # (u \in boards.Grafanas)}
  BY DEF Boards!LeaderMoves
<1>2. /\ leads \subseteq boards.Providers \cup boards.Grafanas /\ boards.Providers \cap boards.Grafanas = {}
      /\ u \in boards.Providers \cup boards.Grafanas
  BY DEF BoardsTypeOK, Boards!ConstantsOK, Boards!Units
<1>3. CASE u \in boards.Grafanas
  <2>1. leads' \cap boards.Providers = leads \cap boards.Providers /\ leads' \cap boards.Grafanas = {u}
    BY <1>1, <1>2, <1>3
  <2>2. QED BY <1>1, <1>2, <1>3, <2>1 DEF LeadsInv, OneLead, Boards!Units
<1>4. CASE u \in boards.Providers
  <2>1. leads' \cap boards.Grafanas = leads \cap boards.Grafanas /\ leads' \cap boards.Providers = {u}
    BY <1>1, <1>2, <1>4
  <2>2. QED BY <1>1, <1>2, <1>4, <2>1 DEF LeadsInv, OneLead, Boards!Units
<1>5. QED BY <1>2, <1>3, <1>4

\* Steps that add events to the queues, and a unit whose disk changes scans.
LEMMA ProviderFrame ==
    ASSUME ProviderInv, UNCHANGED <<stored, board>>, related' \subseteq boards.Relations,
           \A v \in boards.Providers :
              /\ <<"scan", NoValue>> \in todo[v] => <<"scan", NoValue>> \in todo'[v]
              /\ disk'[v] = disk[v] \/ <<"scan", NoValue>> \in todo'[v]
              /\ v \in leads' => v \in leads \/ <<"scan", NoValue>> \in todo'[v]
              /\ \A r \in related' :
                   /\ r \in related \/ <<"created", r>> \in todo'[v]
                   /\ <<"created", r>> \in todo[v] => <<"created", r>> \in todo'[v]
    PROVE  StoredInv' /\ BoardInv'
<1>1. StoredInv /\ BoardInv BY DEF ProviderInv
<1>2. ASSUME NEW v \in boards.Providers, <<"scan", NoValue>> \notin todo'[v]
      PROVE  Boards!Programmed(v)' = Boards!Programmed(v) /\ Boards!OnDisk(v)' = Boards!OnDisk(v)
  BY <1>2 DEF Boards!Programmed, Boards!OnDisk
<1>3. StoredInv' BY <1>1, <1>2 DEF StoredInv
<1>4. ASSUME NEW v \in boards.Providers, v \in leads', NEW r \in related'
      PROVE  \/ board'[r] = Boards!OnDisk(v)' \cup Boards!Programmed(v)'
             \/ <<"scan", NoValue>> \in todo'[v] \/ <<"created", r>> \in todo'[v]
  <2>1. CASE <<"scan", NoValue>> \in todo'[v] BY <2>1
  <2>2. CASE <<"created", r>> \in todo'[v] BY <2>2
  <2>3. CASE <<"scan", NoValue>> \notin todo'[v] /\ <<"created", r>> \notin todo'[v]
    <3>1. /\ <<"scan", NoValue>> \notin todo[v] /\ <<"created", r>> \notin todo[v]
          /\ v \in leads /\ r \in related /\ board'[r] = board[r]
      BY <1>4, <2>3
    <3>2. board[r] = Boards!OnDisk(v) \cup Boards!Programmed(v)
      BY <1>1, <3>1 DEF BoardInv
    <3>3. QED BY <1>2, <2>3, <3>1, <3>2
  <2>4. QED BY <2>1, <2>2, <2>3
<1>5. BoardInv' BY <1>4 DEF BoardInv
<1>6. QED BY <1>3, <1>5

\* A relation that goes takes what is published in it.
LEMMA BreakProvider ==
    ASSUME Boards!ConstantsOK, ProviderInv, NEW r \in boards.Relations, Boards!Break(r)
    PROVE  StoredInv' /\ BoardInv'
<1>1. StoredInv /\ BoardInv /\ BoardsTypeOK BY DEF ProviderInv
<1>2. /\ UNCHANGED <<leads, disk, stored>> /\ related' = related \ {r}
      /\ \A q \in related' : board'[q] = board[q]
  BY <1>1 DEF Boards!Break, BoardsTypeOK
<1>3. \A v \in boards.Providers :
        /\ <<"scan", NoValue>> \in todo[v] => <<"scan", NoValue>> \in todo'[v]
        /\ \A q \in related' : <<"created", q>> \in todo[v] => <<"created", q>> \in todo'[v]
  BY <1>2, BoardsEventsDiffer DEF Boards!Break, Boards!Units
<1>4. \A v \in boards.Providers : Boards!Programmed(v)' = Boards!Programmed(v) /\ Boards!OnDisk(v)' = Boards!OnDisk(v)
  BY <1>2 DEF Boards!Programmed, Boards!OnDisk
<1>5. QED BY <1>1, <1>2, <1>3, <1>4 DEF StoredInv, BoardInv

-----------------------------------------------------------------------------
(* Types *)

\* What Grafana renders of a relation is templates or nothing.
LEMMA RenderTypes ==
    ASSUME BoardsTypeOK, NEW r \in boards.Relations
    PROVE  /\ Boards!Render(r).dashboards \in {NoValue} \cup SUBSET Boards!Template
           /\ Boards!Render(r).errors \in SUBSET Boards!Template
<1>1. /\ board[r] \in {NoValue} \cup SUBSET Boards!Template /\ peer[r] \in {NoValue} \cup SUBSET Boards!Template
      /\ errors[r] \in SUBSET Boards!Template
  BY DEF BoardsTypeOK
<1>2. QED BY <1>1 DEF Boards!Render, Boards!InvalidIn, Boards!RenderedOf

\* A hook of Grafana: what it makes of an event, and whom it tells.
LEMMA ConsumeEffect ==
    ASSUME BoardsTypeOK, BoardsTodoInv, boards.Providers \cap boards.Grafanas = {},
           NEW g \in boards.Grafanas, NEW e, Boards!Consume(g, e)
    PROVE  /\ e \in todo[g] /\ e \in GrafanaEvents
           /\ UNCHANGED <<leads, disk, stored, board, told, related, used>>
           /\ todo'[g] = todo[g] \ {e}
           /\ \A h \in boards.Grafanas \ {g} :
                todo'[h] = todo[h] \cup (IF peer' # peer THEN {<<"peer", NoValue>>} ELSE {})
           /\ \A p \in boards.Providers :
                todo'[p] = todo[p] \cup (IF errors' # errors THEN {<<"changed", e[2]>>} ELSE {})
           /\ todo' \in [Boards!Units -> SUBSET (ProviderEvents \cup GrafanaEvents)]
           /\ errors' # errors => e[2] \in boards.Relations
<1>1. e \in todo[g] /\ e \in GrafanaEvents
  BY DEF Boards!Consume, BoardsTodoInv
<1>2. errors' # errors => e[2] \in boards.Relations
  <2>1. e[1] # "peer" => e[2] \in boards.Relations BY <1>1, EventKinds
  <2>2. errors' # errors => e[1] # "peer" BY DEF Boards!Consume
  <2>3. QED BY <2>1, <2>2
<1>3. UNCHANGED <<leads, disk, stored, board, told, related, used>>
  BY DEF Boards!Consume, Boards!provider
<1>4. todo' = [u \in Boards!Units |->
             CASE u = g -> todo[u] \ {e}
               [] u \in boards.Grafanas \ {g} -> todo[u] \cup (IF peer' # peer THEN {<<"peer", NoValue>>} ELSE {})
               [] OTHER -> todo[u] \cup (IF errors' # errors THEN {<<"changed", e[2]>>} ELSE {})]
  BY DEF Boards!Consume
<1>5. todo'[g] = todo[g] \ {e}
  BY <1>4 DEF Boards!Units
<1>6. \A h \in boards.Grafanas \ {g} :
        todo'[h] = todo[h] \cup (IF peer' # peer THEN {<<"peer", NoValue>>} ELSE {})
  BY <1>4 DEF Boards!Units
<1>7. \A p \in boards.Providers :
        todo'[p] = todo[p] \cup (IF errors' # errors THEN {<<"changed", e[2]>>} ELSE {})
  BY <1>4 DEF Boards!Units
<1>8. ASSUME NEW v \in Boards!Units PROVE todo'[v] \subseteq ProviderEvents \cup GrafanaEvents
  <2>1. todo[v] \subseteq ProviderEvents \cup GrafanaEvents BY DEF BoardsTypeOK
  <2>2. errors' # errors => <<"changed", e[2]>> \in ProviderEvents
    BY <1>2, EventKinds
  <2>3. <<"peer", NoValue>> \in GrafanaEvents BY EventKinds
  <2>4. v \in boards.Providers \/ v = g \/ v \in boards.Grafanas \ {g} BY DEF Boards!Units
  <2>5. QED BY <1>5, <1>6, <1>7, <2>1, <2>2, <2>3, <2>4
<1>9. todo' \in [Boards!Units -> SUBSET (ProviderEvents \cup GrafanaEvents)]
  BY <1>4, <1>8
<1>10. QED BY <1>1, <1>2, <1>3, <1>5, <1>6, <1>7, <1>9

\* What it writes, if its unit leads.
LEMMA ConsumeWrites ==
    ASSUME BoardsTypeOK, NEW g \in boards.Grafanas, NEW e \in GrafanaEvents, Boards!Consume(g, e)
    PROVE  /\ ~Boards!Leads(g) \/ e = <<"peer", NoValue>> =>
                /\ peer' = peer /\ errors' = errors
                /\ \A h \in boards.Grafanas : shown'[h] = IF h = g /\ e = <<"peer", NoValue>> /\ ~Boards!Leads(g)
                                                           THEN Boards!Loaded(peer) ELSE shown[h]
           /\ \A r \in boards.Relations : Boards!Leads(g) /\ e = <<"broken", r>> =>
                /\ peer' = [peer EXCEPT ![r] = NoValue] /\ errors' = errors
                /\ shown' = IF peer' # peer THEN [shown EXCEPT ![g] = Boards!Loaded(peer')] ELSE shown
           /\ \A r \in boards.Relations : Boards!Leads(g) /\ e = <<"changed", r>> =>
                /\ peer' = [peer EXCEPT ![r] = Boards!Render(r).dashboards]
                /\ errors' = [errors EXCEPT ![r] = Boards!Render(r).errors]
                /\ shown' \in {[shown EXCEPT ![g] = Boards!Loaded(peer')], shown}
                /\ peer' # peer => shown' = [shown EXCEPT ![g] = Boards!Loaded(peer')]
<1>1. CASE ~Boards!Leads(g)
  <2>1. \A r \in boards.Relations : <<"changed", r>>[1] # "peer" /\ <<"broken", r>>[1] # "peer"
    OBVIOUS
  <2>2. e[1] = "peer" <=> e = <<"peer", NoValue>>
    BY <2>1, EventKinds
  <2>3. peer' = peer /\ errors' = errors
    BY <1>1 DEF Boards!Consume
  <2>4. shown' = IF e[1] = "peer" THEN [shown EXCEPT ![g] = Boards!Loaded(peer')] ELSE shown
    BY <1>1, <2>3 DEF Boards!Consume
  <2>5. Boards!Loaded(peer') = Boards!Loaded(peer) BY <2>3
  <2>6. QED BY <1>1, <2>2, <2>3, <2>4, <2>5 DEF BoardsTypeOK
<1>2. CASE e = <<"peer", NoValue>> /\ Boards!Leads(g)
  <2>1. peer' = peer /\ errors' = errors
    BY <1>2 DEF Boards!Consume
  <2>2. shown' = shown
    BY <1>2, <2>1 DEF Boards!Consume
  <2>3. QED BY <1>2, <2>1, <2>2, BoardsEventsDiffer
<1>3. ASSUME NEW r \in boards.Relations, Boards!Leads(g), e = <<"broken", r>>
      PROVE  /\ peer' = [peer EXCEPT ![r] = NoValue] /\ errors' = errors
             /\ shown' = IF peer' # peer THEN [shown EXCEPT ![g] = Boards!Loaded(peer')] ELSE shown
  <2>1. peer' = [peer EXCEPT ![r] = NoValue] BY <1>3 DEF Boards!Consume
  <2>2. errors' = [errors EXCEPT ![r] = errors[r]] BY <1>3 DEF Boards!Consume
  <2>3. errors' = errors BY <2>2 DEF BoardsTypeOK
  <2>4. QED BY <1>3, <2>1, <2>3 DEF Boards!Consume
<1>4. ASSUME NEW r \in boards.Relations, Boards!Leads(g), e = <<"changed", r>>
      PROVE  /\ peer' = [peer EXCEPT ![r] = Boards!Render(r).dashboards]
             /\ errors' = [errors EXCEPT ![r] = Boards!Render(r).errors]
             /\ shown' \in {[shown EXCEPT ![g] = Boards!Loaded(peer')], shown}
             /\ peer' # peer => shown' = [shown EXCEPT ![g] = Boards!Loaded(peer')]
  BY <1>4 DEF Boards!Consume
<1>5. QED BY <1>1, <1>2, <1>3, <1>4, EventKinds, BoardsEventsDiffer

-----------------------------------------------------------------------------
(* The provider's part of the invariant, step by step *)

\* Events that a step adds to a provider unit, and to one of Grafana, while
\* the relations stay as they are.
LEMMA TodoFrame ==
    ASSUME BoardsTypeOK, BoardsTodoInv, related' = related,
           \A p \in boards.Providers : todo'[p] \subseteq todo[p] \cup ProviderEvents,
           \A g \in boards.Grafanas :
              todo'[g] \subseteq todo[g] \cup {<<"changed", r>> : r \in related} \cup {<<"peer", NoValue>>}
    PROVE  BoardsTodoInv'
<1>1. \A p \in boards.Providers : todo'[p] \subseteq ProviderEvents
  BY DEF BoardsTodoInv
<1>2. ASSUME NEW g \in boards.Grafanas
      PROVE  todo'[g] \subseteq GrafanaEvents
  <2>1. \A r \in related : <<"changed", r>> \in GrafanaEvents
    BY EventKinds DEF BoardsTypeOK
  <2>2. QED BY <2>1, EventKinds DEF BoardsTodoInv
<1>3. ASSUME NEW g \in boards.Grafanas, NEW r \in boards.Relations, <<"changed", r>> \in todo'[g]
      PROVE  r \in related
  <2>1. <<"changed", r>> \in todo[g] \/ (\E q \in related : <<"changed", r>> = <<"changed", q>>)
    BY <1>3, BoardsEventsDiffer
  <2>2. QED BY <2>1, BoardsEventsDiffer DEF BoardsTodoInv
<1>4. ASSUME NEW g \in boards.Grafanas, NEW r \in boards.Relations, <<"broken", r>> \in todo'[g]
      PROVE  r \notin related
  <2>1. <<"broken", r>> \in todo[g]
    BY <1>4, BoardsEventsDiffer
  <2>2. QED BY <2>1 DEF BoardsTodoInv
<1>5. QED BY <1>1, <1>2, <1>3, <1>4 DEF BoardsTodoInv

LEMMA ProvideKeeps ==
    ASSUME Boards!ConstantsOK, ProviderInv, NEW u \in Boards!Units, NEW e, Boards!Provide(u, e)
    PROVE  ProviderInv'
<1>1. /\ boards.Providers \cap boards.Grafanas = {} /\ BoardsTypeOK /\ BoardsTodoInv /\ LeadsInv /\ u \in boards.Providers
      /\ UNCHANGED <<leads, disk, related, errors, peer, shown, used>>
  BY DEF Boards!ConstantsOK, ProviderInv, Boards!Provide, Boards!consumer
<1>2. /\ e \in todo[u] /\ e \in ProviderEvents
      /\ board' \in [boards.Relations -> {NoValue} \cup SUBSET Boards!Template]
      /\ todo' \in [Boards!Units -> SUBSET (ProviderEvents \cup GrafanaEvents)]
      /\ stored' \in [boards.Providers -> SUBSET Boards!Template]
      /\ Supplied(u, {e}, Boards!Programmed(u) \cup Boards!OnDisk(u)) \/ PassedOver(u, e)
  BY <1>1, ProvideEffect
<1>3. told' \in [boards.Providers -> SUBSET Boards!Template]
  <2>1. e[1] = "changed" => e[2] \in boards.Relations BY <1>2, EventKinds
  <2>2. e[1] = "changed" => errors[e[2]] \in SUBSET Boards!Template BY <1>1, <2>1 DEF BoardsTypeOK
  <2>3. QED BY <1>1, <2>2 DEF Boards!Provide, BoardsTypeOK
<1>4. BoardsTypeOK' BY <1>1, <1>2, <1>3 DEF BoardsTypeOK
<1>5. /\ \A p \in boards.Providers : todo'[p] \subseteq todo[p]
      /\ \A g \in boards.Grafanas : todo'[g] \subseteq todo[g] \cup {<<"changed", r>> : r \in related}
  BY <1>1, <1>2 DEF Supplied, PassedOver, Published, Unpublished
<1>6. BoardsTodoInv' BY <1>1, <1>5, TodoFrame
<1>7. LeadsInv' BY <1>1 DEF LeadsInv, OneLead
<1>8. QED BY <1>1, <1>4, <1>6, <1>7, ProvideStep DEF ProviderInv

LEMMA ProgramKeeps ==
    ASSUME Boards!ConstantsOK, ProviderInv, NEW u \in Boards!Units, Boards!Program(u)
    PROVE  ProviderInv'
<1>1. /\ boards.Providers \cap boards.Grafanas = {} /\ BoardsTypeOK /\ BoardsTodoInv /\ LeadsInv /\ u \in boards.Providers
      /\ UNCHANGED <<leads, disk, related, told, errors, peer, shown>> /\ Boards!Spend("program")
  BY DEF Boards!ConstantsOK, ProviderInv, Boards!Program, Boards!consumer
<1>2. PICK ts \in SUBSET Boards!Template :
        /\ Supplied(u, {}, ts)
        /\ board' \in [boards.Relations -> {NoValue} \cup SUBSET Boards!Template]
        /\ todo' \in [Boards!Units -> SUBSET (ProviderEvents \cup GrafanaEvents)]
        /\ stored' \in [boards.Providers -> SUBSET Boards!Template]
  BY <1>1, ProgramEffect
<1>3. used' \in [Boards!EnvSteps -> Nat]
  BY <1>1, SpendCounts DEF Boards!EnvSteps
<1>4. BoardsTypeOK' BY <1>1, <1>2, <1>3 DEF BoardsTypeOK
<1>5. /\ \A p \in boards.Providers : todo'[p] \subseteq todo[p]
      /\ \A g \in boards.Grafanas : todo'[g] \subseteq todo[g] \cup {<<"changed", r>> : r \in related}
  BY <1>1, <1>2 DEF Supplied, Published, Unpublished
<1>6. BoardsTodoInv' BY <1>1, <1>5, TodoFrame
<1>7. LeadsInv' BY <1>1 DEF LeadsInv, OneLead
<1>8. QED BY <1>1, <1>4, <1>6, <1>7, ProgramStep DEF ProviderInv

LEMMA UpgradeKeeps ==
    ASSUME Boards!ConstantsOK, ProviderInv, NEW u \in Boards!Units,
           NEW c \in boards.Contents, Boards!Upgrade(u, c)
    PROVE  ProviderInv'
<1>1. /\ boards.Providers \cap boards.Grafanas = {} /\ BoardsTypeOK /\ BoardsTodoInv /\ LeadsInv /\ u \in boards.Providers
      /\ UNCHANGED <<leads, stored, related, board, told, errors, peer, shown>>
      /\ Boards!Spend("upgrade") /\ disk' = [disk EXCEPT ![u] = c]
      /\ todo' = [todo EXCEPT ![u] = todo[u] \cup {<<"scan", NoValue>>}]
  BY DEF Boards!ConstantsOK, ProviderInv, Boards!Upgrade, Boards!consumer
<1>2. used' \in [Boards!EnvSteps -> Nat]
  BY <1>1, SpendCounts DEF Boards!EnvSteps
<1>3. /\ \A v \in Boards!Units : todo'[v] = todo[v] \cup IF v = u THEN {<<"scan", NoValue>>} ELSE {}
      /\ \A v \in boards.Providers : disk'[v] = disk[v] \/ v = u
  BY <1>1 DEF BoardsTypeOK, Boards!Units
<1>4. BoardsTypeOK'
  <2>1. todo' \in [Boards!Units -> SUBSET (ProviderEvents \cup GrafanaEvents)]
    BY <1>1, <1>3, EventKinds DEF BoardsTypeOK
  <2>2. disk' \in [boards.Providers -> boards.Contents \cup {NoValue}] BY <1>1 DEF BoardsTypeOK
  <2>3. QED BY <1>1, <1>2, <2>1, <2>2 DEF BoardsTypeOK
<1>5. BoardsTodoInv'
  <2>1. \A p \in boards.Providers : todo'[p] \subseteq todo[p] \cup ProviderEvents
    BY <1>3, EventKinds DEF Boards!Units
  <2>2. \A g \in boards.Grafanas : todo'[g] = todo[g]
    BY <1>1, <1>3 DEF Boards!Units
  <2>3. QED BY <1>1, <2>1, <2>2, TodoFrame
<1>6. LeadsInv' BY <1>1 DEF LeadsInv, OneLead
<1>7. StoredInv' /\ BoardInv'
  <2>1. related \subseteq boards.Relations BY <1>1 DEF BoardsTypeOK
  <2>2. \A v \in boards.Providers :
              /\ <<"scan", NoValue>> \in todo[v] => <<"scan", NoValue>> \in todo'[v]
              /\ disk'[v] = disk[v] \/ <<"scan", NoValue>> \in todo'[v]
              /\ v \in leads' => v \in leads
              /\ \A r \in related' :
                   /\ r \in related
                   /\ <<"created", r>> \in todo[v] => <<"created", r>> \in todo'[v]
    BY <1>1, <1>3 DEF Boards!Units
  <2>3. QED BY <1>1, <2>1, <2>2, ProviderFrame
<1>8. QED BY <1>4, <1>5, <1>6, <1>7 DEF ProviderInv

LEMMA RelateKeeps ==
    ASSUME Boards!ConstantsOK, ProviderInv, NEW r \in boards.Relations, Boards!Relate(r)
    PROVE  ProviderInv'
<1>1. /\ boards.Providers \cap boards.Grafanas = {} /\ BoardsTypeOK /\ BoardsTodoInv /\ LeadsInv
      /\ UNCHANGED <<leads, disk, stored, board, told, errors, peer, shown>>
      /\ Boards!Spend("relate") /\ related' = related \cup {r}
      /\ \A g \in boards.Grafanas : <<"broken", r>> \notin todo[g]
      /\ todo' = [v \in Boards!Units |-> todo[v] \cup IF v \in boards.Providers THEN {<<"created", r>>} ELSE {}]
  BY DEF Boards!ConstantsOK, ProviderInv, Boards!Relate, Boards!provider, Boards!consumer
<1>2. used' \in [Boards!EnvSteps -> Nat]
  BY <1>1, SpendCounts DEF Boards!EnvSteps
<1>3. /\ \A p \in boards.Providers : todo'[p] = todo[p] \cup {<<"created", r>>}
      /\ \A g \in boards.Grafanas : todo'[g] = todo[g]
  BY <1>1 DEF Boards!Units
<1>4. BoardsTypeOK'
  <2>1. ASSUME NEW v \in Boards!Units PROVE todo'[v] \subseteq ProviderEvents \cup GrafanaEvents
    <3>1. <<"created", r>> \in ProviderEvents BY EventKinds
    <3>2. todo[v] \subseteq ProviderEvents \cup GrafanaEvents BY <1>1 DEF BoardsTypeOK
    <3>3. QED BY <1>3, <3>1, <3>2 DEF Boards!Units
  <2>2. todo' \in [Boards!Units -> SUBSET (ProviderEvents \cup GrafanaEvents)]
    BY <1>1, <2>1
  <2>3. related' \subseteq boards.Relations BY <1>1 DEF BoardsTypeOK
  <2>4. QED BY <1>1, <1>2, <2>2, <2>3 DEF BoardsTypeOK
<1>5. BoardsTodoInv'
  <2>1. \A p \in boards.Providers : todo'[p] \subseteq ProviderEvents
    <3>1. <<"created", r>> \in ProviderEvents BY EventKinds
    <3>2. \A p \in boards.Providers : todo[p] \subseteq ProviderEvents BY <1>1 DEF BoardsTodoInv
    <3>3. QED BY <1>3, <3>1, <3>2
  <2>2. \A g \in boards.Grafanas :
         /\ todo'[g] \subseteq GrafanaEvents
         /\ \A q \in boards.Relations : /\ <<"changed", q>> \in todo'[g] => q \in related'
                                        /\ <<"broken", q>> \in todo'[g] => q \notin related'
    BY <1>1, <1>3 DEF BoardsTodoInv
  <2>3. QED BY <2>1, <2>2 DEF BoardsTodoInv
<1>6. LeadsInv' BY <1>1 DEF LeadsInv, OneLead
<1>7. StoredInv' /\ BoardInv'
  <2>1. related' \subseteq boards.Relations BY <1>1 DEF BoardsTypeOK
  <2>2. \A v \in boards.Providers :
              /\ <<"scan", NoValue>> \in todo[v] => <<"scan", NoValue>> \in todo'[v]
              /\ disk'[v] = disk[v]
              /\ v \in leads' => v \in leads
              /\ \A q \in related' :
                   /\ q \in related \/ <<"created", q>> \in todo'[v]
                   /\ <<"created", q>> \in todo[v] => <<"created", q>> \in todo'[v]
    BY <1>1, <1>3
  <2>3. QED BY <1>1, <2>1, <2>2, ProviderFrame
<1>8. QED BY <1>4, <1>5, <1>6, <1>7 DEF ProviderInv

LEMMA BreakKeeps ==
    ASSUME Boards!ConstantsOK, ProviderInv, NEW r \in boards.Relations, Boards!Break(r)
    PROVE  ProviderInv'
<1>1. /\ boards.Providers \cap boards.Grafanas = {} /\ BoardsTypeOK /\ BoardsTodoInv /\ LeadsInv
      /\ UNCHANGED <<leads, disk, stored, told, peer, shown>>
      /\ Boards!Spend("break") /\ r \in related /\ related' = related \ {r}
      /\ board' = [board EXCEPT ![r] = NoValue] /\ errors' = [errors EXCEPT ![r] = {}]
      /\ todo' = [u \in Boards!Units |-> (todo[u] \ {<<"created", r>>, <<"changed", r>>})
                                         \cup IF u \in boards.Grafanas THEN {<<"broken", r>>} ELSE {}]
  BY DEF Boards!ConstantsOK, ProviderInv, Boards!Break
<1>2. used' \in [Boards!EnvSteps -> Nat]
  BY <1>1, SpendCounts DEF Boards!EnvSteps
<1>3. /\ \A p \in boards.Providers : todo'[p] = todo[p] \ {<<"created", r>>, <<"changed", r>>}
      /\ \A g \in boards.Grafanas : todo'[g] = (todo[g] \ {<<"created", r>>, <<"changed", r>>})
                                                \cup {<<"broken", r>>}
  BY <1>1 DEF Boards!Units
<1>4. BoardsTypeOK'
  <2>1. ASSUME NEW v \in Boards!Units PROVE todo'[v] \subseteq ProviderEvents \cup GrafanaEvents
    <3>1. <<"broken", r>> \in GrafanaEvents BY EventKinds
    <3>2. todo[v] \subseteq ProviderEvents \cup GrafanaEvents BY <1>1 DEF BoardsTypeOK
    <3>3. QED BY <1>3, <3>1, <3>2 DEF Boards!Units
  <2>2. todo' \in [Boards!Units -> SUBSET (ProviderEvents \cup GrafanaEvents)]
    BY <1>1, <2>1
  <2>3. /\ board' \in [boards.Relations -> {NoValue} \cup SUBSET Boards!Template]
        /\ errors' \in [boards.Relations -> SUBSET Boards!Template] /\ related' \subseteq boards.Relations
    BY <1>1 DEF BoardsTypeOK
  <2>4. QED BY <1>1, <1>2, <2>2, <2>3 DEF BoardsTypeOK
<1>5. BoardsTodoInv'
  <2>1. \A p \in boards.Providers : todo'[p] \subseteq ProviderEvents
    BY <1>1, <1>3 DEF BoardsTodoInv
  <2>2. ASSUME NEW g \in boards.Grafanas PROVE todo'[g] \subseteq GrafanaEvents
    <3>1. <<"broken", r>> \in GrafanaEvents BY EventKinds
    <3>2. todo[g] \subseteq GrafanaEvents BY <1>1 DEF BoardsTodoInv
    <3>3. QED BY <1>3, <3>1, <3>2
  <2>3. ASSUME NEW g \in boards.Grafanas, NEW q \in boards.Relations, <<"changed", q>> \in todo'[g]
        PROVE  q \in related'
    <3>1. <<"changed", q>> \in todo[g] /\ q # r BY <1>3, <2>3, BoardsEventsDiffer
    <3>2. q \in related BY <1>1, <3>1 DEF BoardsTodoInv
    <3>3. QED BY <1>1, <3>1, <3>2
  <2>4. ASSUME NEW g \in boards.Grafanas, NEW q \in boards.Relations, <<"broken", q>> \in todo'[g]
        PROVE  q \notin related'
    <3>1. q = r \/ <<"broken", q>> \in todo[g] BY <1>3, <2>4, BoardsEventsDiffer
    <3>2. QED BY <1>1, <3>1 DEF BoardsTodoInv
  <2>5. QED BY <2>1, <2>2, <2>3, <2>4 DEF BoardsTodoInv
<1>6. LeadsInv' BY <1>1 DEF LeadsInv, OneLead
<1>7. QED BY <1>4, <1>5, <1>6, BreakProvider DEF ProviderInv

LEMMA LeaderMovesKeeps ==
    ASSUME Boards!ConstantsOK, ProviderInv, NEW u \in Boards!Units, Boards!LeaderMoves(u)
    PROVE  ProviderInv'
<1>1. /\ boards.Providers \cap boards.Grafanas = {} /\ BoardsTypeOK /\ BoardsTodoInv /\ LeadsInv
      /\ UNCHANGED <<disk, stored, board, told, related, errors, peer, shown>>
      /\ Boards!Spend(IF u \in boards.Grafanas THEN "grafana" ELSE "leader")
      /\ todo' = [todo EXCEPT ![u] = todo[u] \cup IF u \in boards.Providers THEN {<<"scan", NoValue>>} ELSE {}]
  BY DEF Boards!ConstantsOK, ProviderInv, Boards!LeaderMoves, Boards!provider, Boards!consumer
<1>2. used' \in [Boards!EnvSteps -> Nat]
  BY <1>1, SpendCounts DEF Boards!EnvSteps
<1>3. /\ LeadsInv' /\ leads' \subseteq Boards!Units
      /\ u \in boards.Grafanas => leads' \cap boards.Providers = leads \cap boards.Providers
      /\ u \in boards.Providers => leads' \cap boards.Providers = {u}
  BY <1>1, LeadsStep
<1>4. \A v \in Boards!Units : todo'[v] = todo[v] \cup IF v = u /\ u \in boards.Providers THEN {<<"scan", NoValue>>} ELSE {}
  BY <1>1 DEF BoardsTypeOK
<1>5. BoardsTypeOK'
  <2>1. todo' \in [Boards!Units -> SUBSET (ProviderEvents \cup GrafanaEvents)]
    BY <1>1, <1>4, EventKinds DEF BoardsTypeOK
  <2>2. QED BY <1>1, <1>2, <1>3, <2>1 DEF BoardsTypeOK
<1>6. BoardsTodoInv'
  <2>1. \A p \in boards.Providers : todo'[p] \subseteq todo[p] \cup ProviderEvents
    BY <1>4, EventKinds DEF Boards!Units
  <2>2. \A g \in boards.Grafanas : todo'[g] = todo[g]
    BY <1>1, <1>4 DEF Boards!Units
  <2>3. QED BY <1>1, <2>1, <2>2, TodoFrame
<1>7. StoredInv' /\ BoardInv'
  <2>1. related \subseteq boards.Relations BY <1>1 DEF BoardsTypeOK
  <2>2. \A v \in boards.Providers : v \in leads' => v \in leads \/ <<"scan", NoValue>> \in todo'[v]
    <3>1. CASE u \in boards.Grafanas BY <1>3, <3>1
    <3>2. CASE u \in boards.Providers
      <4>1. <<"scan", NoValue>> \in todo'[u] BY <1>4, <3>2
      <4>2. QED BY <1>3, <3>2, <4>1
    <3>3. QED BY <3>1, <3>2 DEF Boards!Units
  <2>3. \A v \in boards.Providers : todo[v] \subseteq todo'[v]
    BY <1>4 DEF Boards!Units
  <2>4. QED BY <1>1, <2>1, <2>2, <2>3, ProviderFrame
<1>8. QED BY <1>3, <1>5, <1>6, <1>7 DEF ProviderInv

LEMMA ConsumeKeeps ==
    ASSUME Boards!ConstantsOK, ProviderInv, NEW g \in Boards!Units, NEW e, Boards!Consume(g, e)
    PROVE  ProviderInv'
<1>1. /\ boards.Providers \cap boards.Grafanas = {} /\ BoardsTypeOK /\ BoardsTodoInv /\ LeadsInv /\ g \in boards.Grafanas
  BY DEF Boards!ConstantsOK, ProviderInv, Boards!Consume
<1>2. /\ e \in todo[g] /\ e \in GrafanaEvents
      /\ UNCHANGED <<leads, disk, stored, board, told, related, used>>
      /\ todo'[g] = todo[g] \ {e}
      /\ \A h \in boards.Grafanas \ {g} :
           todo'[h] = todo[h] \cup (IF peer' # peer THEN {<<"peer", NoValue>>} ELSE {})
      /\ \A p \in boards.Providers :
           todo'[p] = todo[p] \cup (IF errors' # errors THEN {<<"changed", e[2]>>} ELSE {})
      /\ todo' \in [Boards!Units -> SUBSET (ProviderEvents \cup GrafanaEvents)]
      /\ errors' # errors => e[2] \in boards.Relations
  BY <1>1, ConsumeEffect
<1>3. /\ peer' \in [boards.Relations -> {NoValue} \cup SUBSET Boards!Template]
      /\ errors' \in [boards.Relations -> SUBSET Boards!Template]
      /\ shown' \in [boards.Grafanas -> SUBSET (boards.Relations \X Boards!Template)]
  <2>1. Boards!Loaded(peer') \in SUBSET (boards.Relations \X Boards!Template)
    BY DEF Boards!Loaded
  <2>2. shown' \in [boards.Grafanas -> SUBSET (boards.Relations \X Boards!Template)]
    <3>1. shown' = [shown EXCEPT ![g] = Boards!Loaded(peer')] \/ shown' = shown
      BY DEF Boards!Consume
    <3>2. QED BY <1>1, <2>1, <3>1 DEF BoardsTypeOK
  <2>3. CASE peer' = peer /\ errors' = errors
    BY <1>1, <2>2, <2>3 DEF BoardsTypeOK
  <2>4. CASE ~(peer' = peer /\ errors' = errors)
    <3>1. Boards!Leads(g) /\ e[1] # "peer" BY <2>4 DEF Boards!Consume
    <3>2. PICK r \in boards.Relations : e = <<"changed", r>> \/ e = <<"broken", r>>
      BY <1>2, <3>1, EventKinds
    <3>3. CASE e = <<"changed", r>>
      <4>1. /\ peer' = [peer EXCEPT ![r] = Boards!Render(r).dashboards]
            /\ errors' = [errors EXCEPT ![r] = Boards!Render(r).errors]
        BY <1>1, <1>2, <3>1, <3>3, ConsumeWrites
      <4>2. QED BY <1>1, <2>2, <4>1, RenderTypes DEF BoardsTypeOK
    <3>4. CASE e = <<"broken", r>>
      <4>1. peer' = [peer EXCEPT ![r] = NoValue] /\ errors' = errors
        BY <1>1, <1>2, <3>1, <3>4, ConsumeWrites
      <4>2. QED BY <1>1, <2>2, <4>1 DEF BoardsTypeOK
    <3>5. QED BY <3>2, <3>3, <3>4
  <2>5. QED BY <2>3, <2>4
<1>4. BoardsTypeOK' BY <1>1, <1>2, <1>3 DEF BoardsTypeOK
<1>5. BoardsTodoInv'
  <2>1. \A p \in boards.Providers : todo'[p] \subseteq todo[p] \cup ProviderEvents
    <3>1. errors' # errors => <<"changed", e[2]>> \in ProviderEvents BY <1>2, EventKinds
    <3>2. QED BY <1>2, <3>1
  <2>2. \A h \in boards.Grafanas : todo'[h] \subseteq todo[h] \cup {<<"peer", NoValue>>}
    BY <1>2
  <2>3. QED BY <1>1, <1>2, <2>1, <2>2, TodoFrame
<1>6. LeadsInv' BY <1>1, <1>2 DEF LeadsInv, OneLead
<1>7. StoredInv' /\ BoardInv'
  <2>1. related \subseteq boards.Relations BY <1>1 DEF BoardsTypeOK
  <2>2. \A v \in boards.Providers : todo[v] \subseteq todo'[v] BY <1>2
  <2>3. QED BY <1>1, <1>2, <2>1, <2>2, ProviderFrame
<1>8. QED BY <1>4, <1>5, <1>6, <1>7 DEF ProviderInv

LEMMA ProviderNext ==
    ASSUME Boards!ConstantsOK, ProviderInv, [Boards!Next]_(Boards!vars)
    PROVE  ProviderInv'
<1>1. CASE UNCHANGED Boards!vars
  BY <1>1
     DEF Boards!vars, Boards!provider, Boards!consumer, ProviderInv, BoardsTypeOK, LeadsInv,
     OneLead, BoardsTodoInv,
              StoredInv, BoardInv, Boards!Programmed, Boards!OnDisk
<1>2. CASE Boards!Next
  <2>1. ASSUME NEW u \in Boards!Units, NEW e \in Boards!Event, Boards!Provide(u, e)
        PROVE ProviderInv'
    BY <2>1, ProvideKeeps
  <2>2. ASSUME NEW u \in Boards!Units, NEW e \in Boards!Event, Boards!Consume(u, e)
        PROVE ProviderInv'
    BY <2>2, ConsumeKeeps
  <2>3. ASSUME NEW u \in Boards!Units, Boards!LeaderMoves(u) PROVE ProviderInv'
    BY <2>3, LeaderMovesKeeps
  <2>4. ASSUME NEW u \in Boards!Units, Boards!Program(u) PROVE ProviderInv'
    BY <2>4, ProgramKeeps
  <2>5. ASSUME NEW u \in Boards!Units, NEW c \in boards.Contents, Boards!Upgrade(u, c)
        PROVE ProviderInv'
    BY <2>5, UpgradeKeeps
  <2>6. ASSUME NEW r \in boards.Relations, Boards!Relate(r) PROVE ProviderInv'
    BY <2>6, RelateKeeps
  <2>7. ASSUME NEW r \in boards.Relations, Boards!Break(r) PROVE ProviderInv'
    BY <2>7, BreakKeeps
  <2>8. QED BY <1>2, <2>1, <2>2, <2>3, <2>4, <2>5, <2>6, <2>7 DEF Boards!Next
<1>3. QED BY <1>1, <1>2

LEMMA ProviderStart ==
    ASSUME Boards!ConstantsOK, Boards!Init
    PROVE  ProviderInv
<1>1. BoardsTypeOK
  BY DEF Boards!Init, BoardsTypeOK, Boards!ConstantsOK, Boards!Units
<1>2. LeadsInv
  BY DEF Boards!Init, Boards!ConstantsOK, LeadsInv, OneLead
<1>3. \A u \in Boards!Units : todo[u] = {}
  BY DEF Boards!Init
<1>4. BoardsTodoInv
  BY <1>3 DEF BoardsTodoInv, Boards!Units
<1>5. \A u \in boards.Providers : stored[u] = {} /\ Boards!Programmed(u) = {} /\ Boards!OnDisk(u) = {}
  BY DEF Boards!Init, Boards!Programmed, Boards!OnDisk
<1>6. StoredInv
  BY <1>5 DEF StoredInv
<1>7. BoardInv
  BY DEF Boards!Init, BoardInv
<1>8. QED BY <1>1, <1>2, <1>4, <1>6, <1>7 DEF ProviderInv

\* With every event handled, the unit that leads is up to date everywhere.
LEMMA PublishedFollows ==
    ASSUME ProviderInv
    PROVE  Boards!PublishedCurrent
<1>1. PICK u \in boards.Providers : leads \cap boards.Providers = {u}
  BY DEF ProviderInv, LeadsInv, OneLead
<1>2. Boards!ProviderLead = u
  BY <1>1 DEF Boards!ProviderLead, Boards!Leads
<1>3. Boards!Quiet(boards.Providers) => \A r \in related : board[r] = Boards!OnDisk(u) \cup Boards!Programmed(u)
  BY <1>1 DEF Boards!Quiet, ProviderInv, BoardInv
<1>4. QED BY <1>2, <1>3 DEF Boards!PublishedCurrent

\* The relations hold the templates of the unit that leads once every event is
\* handled: those in its StoredState and on its disk, for whatever order of
\* relation, upgrade, leader and program events led there.
THEOREM PublishedStaysCurrent == ASSUME Boards!ConstantsOK
                                 PROVE Boards!Spec => []Boards!PublishedCurrent
<1>1. Boards!Init => ProviderInv BY ProviderStart
<1>2. ProviderInv /\ [Boards!Next]_(Boards!vars) => ProviderInv' BY ProviderNext
<1>3. ProviderInv => Boards!PublishedCurrent BY PublishedFollows
<1>4. QED BY <1>1, <1>2, <1>3, PTL DEF Boards!Spec

-----------------------------------------------------------------------------
(* What Grafana shows, and what the provider is told *)

\* A step that writes neither the peer data nor the errors, and publishes a
\* set of templates only together with the event that tells Grafana.
LEMMA PeerFrame ==
    ASSUME ProviderInv, PeerInv, UNCHANGED <<peer, errors, related>>,
           used'["grafana"] = 0 => used["grafana"] = 0 /\ leads' \cap boards.Grafanas = leads \cap boards.Grafanas,
           \A r \in boards.Relations \ related : board'[r] = board[r],
           \A g \in boards.Grafanas : todo[g] \subseteq todo'[g],
           \A r \in related, g \in boards.Grafanas :
              board'[r] = board[r] \/ (board'[r] # NoValue /\ <<"changed", r>> \in todo'[g])
    PROVE  PeerInv'
<1>1. SUFFICES ASSUME used'["grafana"] = 0, NEW g \in boards.Grafanas, g \in leads',
                      NEW r \in boards.Relations
               PROVE  /\ r \notin related => /\ board'[r] = NoValue
                                             /\ peer[r] = NoValue \/ <<"broken", r>> \in todo'[g]
                      /\ r \in related =>
                           IF board'[r] = NoValue THEN peer[r] = NoValue
                           ELSE \/ <<"changed", r>> \in todo'[g]
                                \/ /\ peer[r] = PeerOf(board'[r])
                                   /\ Boards!InvalidIn(board'[r]) \subseteq errors[r]
  BY DEF PeerInv, PeerOf, Boards!InvalidIn, Boards!RenderedOf
<1>2. g \in boards.Grafanas \cap leads /\ used["grafana"] = 0 /\ todo[g] \subseteq todo'[g]
  BY <1>1
<1>3. /\ r \notin related => /\ board[r] = NoValue
                             /\ peer[r] = NoValue \/ <<"broken", r>> \in todo[g]
      /\ r \in related =>
           IF board[r] = NoValue THEN peer[r] = NoValue
           ELSE \/ <<"changed", r>> \in todo[g]
                \/ peer[r] = PeerOf(board[r]) /\ Boards!InvalidIn(board[r]) \subseteq errors[r]
  BY <1>2 DEF PeerInv
<1>4. CASE r \notin related BY <1>2, <1>3, <1>4
<1>5. CASE r \in related
  <2>1. CASE board'[r] = board[r] BY <1>2, <1>3, <1>5, <2>1
  <2>2. CASE board'[r] # NoValue /\ <<"changed", r>> \in todo'[g] BY <1>5, <2>2
  <2>3. QED BY <1>5, <2>1, <2>2
<1>6. QED BY <1>4, <1>5

\* A relation starts with nothing, and ends with an event for Grafana.
LEMMA RelatePeer ==
    ASSUME Boards!ConstantsOK, ProviderInv, PeerInv, NEW r \in boards.Relations, Boards!Relate(r)
    PROVE  PeerInv'
<1>1. /\ UNCHANGED <<leads, board, errors, peer>> /\ related' = related \cup {r}
      /\ r \notin related /\ peer[r] = NoValue /\ Boards!Spend("relate")
      /\ \A g \in boards.Grafanas : todo[g] = todo'[g]
  BY DEF Boards!Relate, Boards!provider, Boards!consumer, Boards!ConstantsOK, Boards!Units
<1>2. used'["grafana"] = 0 => used["grafana"] = 0
  BY <1>1, SpendCounts DEF Boards!EnvSteps, ProviderInv
<1>3. SUFFICES ASSUME used["grafana"] = 0, NEW g \in boards.Grafanas, g \in leads,
                      NEW q \in boards.Relations
               PROVE  /\ q \notin related' => /\ board[q] = NoValue
                                              /\ peer[q] = NoValue \/ <<"broken", q>> \in todo[g]
                      /\ q \in related' =>
                           IF board[q] = NoValue THEN peer[q] = NoValue
                           ELSE \/ <<"changed", q>> \in todo[g]
                                \/ /\ peer[q] = PeerOf(board[q])
                                   /\ Boards!InvalidIn(board[q]) \subseteq errors[q]
  BY <1>1, <1>2 DEF PeerInv, PeerOf, Boards!InvalidIn, Boards!RenderedOf
<1>4. /\ q \notin related => /\ board[q] = NoValue
                             /\ peer[q] = NoValue \/ <<"broken", q>> \in todo[g]
      /\ q \in related =>
             IF board[q] = NoValue THEN peer[q] = NoValue
             ELSE \/ <<"changed", q>> \in todo[g]
                  \/ peer[q] = PeerOf(board[q]) /\ Boards!InvalidIn(board[q]) \subseteq errors[q]
  BY <1>3 DEF PeerInv
<1>5. CASE q = r BY <1>1, <1>4, <1>5
<1>6. CASE q # r
  <2>1. q \in related' <=> q \in related BY <1>1, <1>6
  <2>2. QED BY <1>4, <2>1
<1>7. QED BY <1>5, <1>6

LEMMA BreakPeer ==
    ASSUME Boards!ConstantsOK, ProviderInv, PeerInv, NEW r \in boards.Relations, Boards!Break(r)
    PROVE  PeerInv'
<1>1. /\ UNCHANGED <<leads, peer>> /\ related' = related \ {r} /\ Boards!Spend("break")
      /\ board' = [board EXCEPT ![r] = NoValue] /\ errors' = [errors EXCEPT ![r] = {}]
      /\ \A g \in boards.Grafanas : todo'[g] = (todo[g] \ {<<"created", r>>, <<"changed", r>>})
                                                \cup {<<"broken", r>>}
  BY DEF Boards!Break, Boards!Units
<1>2. used'["grafana"] = 0 => used["grafana"] = 0
  BY <1>1, SpendCounts DEF Boards!EnvSteps, ProviderInv
<1>3. SUFFICES ASSUME used["grafana"] = 0, NEW g \in boards.Grafanas, g \in leads,
                      NEW q \in boards.Relations
               PROVE  /\ q \notin related' => /\ board'[q] = NoValue
                                              /\ peer[q] = NoValue \/ <<"broken", q>> \in todo'[g]
                      /\ q \in related' =>
                           IF board'[q] = NoValue THEN peer[q] = NoValue
                           ELSE \/ <<"changed", q>> \in todo'[g]
                                \/ /\ peer[q] = PeerOf(board'[q])
                                   /\ Boards!InvalidIn(board'[q]) \subseteq errors'[q]
  BY <1>1, <1>2 DEF PeerInv, PeerOf, Boards!InvalidIn, Boards!RenderedOf
<1>4. CASE q = r
  BY <1>1, <1>4 DEF ProviderInv, BoardsTypeOK
<1>5. CASE q # r
  <2>1. board'[q] = board[q] /\ errors'[q] = errors[q] /\ (q \in related' <=> q \in related)
    BY <1>1, <1>5 DEF ProviderInv, BoardsTypeOK
  <2>2. /\ <<"changed", q>> \in todo[g] => <<"changed", q>> \in todo'[g]
        /\ <<"broken", q>> \in todo[g] => <<"broken", q>> \in todo'[g]
    BY <1>1, <1>5, BoardsEventsDiffer
  <2>3. /\ q \notin related => /\ board[q] = NoValue
                               /\ peer[q] = NoValue \/ <<"broken", q>> \in todo[g]
        /\ q \in related =>
             IF board[q] = NoValue THEN peer[q] = NoValue
             ELSE \/ <<"changed", q>> \in todo[g]
                  \/ peer[q] = PeerOf(board[q]) /\ Boards!InvalidIn(board[q]) \subseteq errors[q]
    BY <1>3 DEF PeerInv
  <2>4. QED BY <2>1, <2>2, <2>3
<1>6. QED BY <1>4, <1>5

\* The peer data follows what Grafana's leader makes of an event.
LEMMA ConsumePeer ==
    ASSUME Boards!ConstantsOK, ProviderInv, PeerInv, NEW g \in Boards!Units,
           NEW e, Boards!Consume(g, e)
    PROVE  PeerInv'
<1>1. /\ boards.Providers \cap boards.Grafanas = {} /\ BoardsTypeOK /\ BoardsTodoInv /\ LeadsInv /\ g \in boards.Grafanas
  BY DEF Boards!ConstantsOK, ProviderInv, Boards!Consume
<1>2. /\ e \in todo[g] /\ e \in GrafanaEvents
      /\ UNCHANGED <<leads, board, related, used>>
      /\ todo'[g] = todo[g] \ {e}
      /\ \A h \in boards.Grafanas \ {g} : todo[h] \subseteq todo'[h]
  BY <1>1, ConsumeEffect
<1>3. SUFFICES ASSUME used["grafana"] = 0, NEW h \in boards.Grafanas, h \in leads,
                      NEW q \in boards.Relations
               PROVE  /\ q \notin related => /\ board[q] = NoValue
                                             /\ peer'[q] = NoValue \/ <<"broken", q>> \in todo'[h]
                      /\ q \in related =>
                           IF board[q] = NoValue THEN peer'[q] = NoValue
                           ELSE \/ <<"changed", q>> \in todo'[h]
                                \/ /\ peer'[q] = PeerOf(board[q])
                                   /\ Boards!InvalidIn(board[q]) \subseteq errors'[q]
  BY <1>2 DEF PeerInv, PeerOf, Boards!InvalidIn, Boards!RenderedOf
<1>4. /\ q \notin related => /\ board[q] = NoValue
                             /\ peer[q] = NoValue \/ <<"broken", q>> \in todo[h]
      /\ q \in related =>
             IF board[q] = NoValue THEN peer[q] = NoValue
             ELSE \/ <<"changed", q>> \in todo[h]
                  \/ peer[q] = PeerOf(board[q]) /\ Boards!InvalidIn(board[q]) \subseteq errors[q]
  BY <1>3 DEF PeerInv
<1>5. Boards!Leads(g) <=> g = h
  BY <1>1, <1>3 DEF LeadsInv, OneLead, Boards!Leads
<1>6. CASE g # h
  <2>1. peer' = peer /\ errors' = errors BY <1>1, <1>2, <1>5, <1>6, ConsumeWrites
  <2>2. QED BY <1>2, <1>4, <1>6, <2>1
<1>7. CASE g = h /\ e = <<"peer", NoValue>>
  <2>1. peer' = peer /\ errors' = errors BY <1>1, <1>2, <1>7, ConsumeWrites
  <2>2. /\ <<"changed", q>> \in todo[h] => <<"changed", q>> \in todo'[h]
        /\ <<"broken", q>> \in todo[h] => <<"broken", q>> \in todo'[h]
    BY <1>2, <1>7, BoardsEventsDiffer
  <2>3. QED BY <1>4, <2>1, <2>2
<1>8. ASSUME g = h, NEW r \in boards.Relations, e = <<"broken", r>>
      PROVE  /\ q \notin related => peer'[q] = NoValue \/ <<"broken", q>> \in todo'[h]
             /\ q \in related =>
                  IF board[q] = NoValue THEN peer'[q] = NoValue
                  ELSE \/ <<"changed", q>> \in todo'[h]
                       \/ /\ peer'[q] = PeerOf(board[q])
                          /\ Boards!InvalidIn(board[q]) \subseteq errors'[q]
  <2>1. peer' = [peer EXCEPT ![r] = NoValue] /\ errors' = errors
    BY <1>1, <1>2, <1>5, <1>8, ConsumeWrites
  <2>2. r \notin related BY <1>1, <1>2, <1>8 DEF BoardsTodoInv
  <2>3. CASE q = r
    <3>1. peer'[q] = NoValue BY <1>1, <2>1, <2>3 DEF BoardsTypeOK
    <3>2. QED BY <2>2, <2>3, <3>1
  <2>4. CASE q # r
    <3>1. peer'[q] = peer[q] BY <1>1, <2>1, <2>4 DEF BoardsTypeOK
    <3>2. /\ <<"changed", q>> \in todo[h] => <<"changed", q>> \in todo'[h]
          /\ <<"broken", q>> \in todo[h] => <<"broken", q>> \in todo'[h]
      BY <1>2, <1>8, <2>4, BoardsEventsDiffer
    <3>3. QED BY <1>4, <2>1, <3>1, <3>2
  <2>5. QED BY <2>3, <2>4
<1>9. ASSUME g = h, NEW r \in boards.Relations, e = <<"changed", r>>
      PROVE  /\ q \notin related => peer'[q] = NoValue \/ <<"broken", q>> \in todo'[h]
             /\ q \in related =>
                  IF board[q] = NoValue THEN peer'[q] = NoValue
                  ELSE \/ <<"changed", q>> \in todo'[h]
                       \/ /\ peer'[q] = PeerOf(board[q])
                          /\ Boards!InvalidIn(board[q]) \subseteq errors'[q]
  <2>1. /\ peer' = [peer EXCEPT ![r] = Boards!Render(r).dashboards]
        /\ errors' = [errors EXCEPT ![r] = Boards!Render(r).errors]
    BY <1>1, <1>2, <1>5, <1>9, ConsumeWrites
  <2>2. r \in related BY <1>1, <1>2, <1>9 DEF BoardsTodoInv
  <2>3. CASE q = r
    <3>1. peer'[q] = Boards!Render(q).dashboards /\ errors'[q] = Boards!Render(q).errors
      BY <1>1, <2>1, <2>3 DEF BoardsTypeOK
    <3>2. CASE board[q] = NoValue
      <4>1. Boards!Render(q).dashboards = peer[q] BY <3>2 DEF Boards!Render
      <4>2. QED BY <1>4, <2>2, <2>3, <3>1, <3>2, <4>1
    <3>3. CASE board[q] # NoValue /\ Boards!InvalidIn(board[q]) # {}
      <4>1. Boards!Render(q).dashboards = NoValue /\ Boards!Render(q).errors = Boards!InvalidIn(board[q])
        BY <3>3 DEF Boards!Render
      <4>2. PeerOf(board[q]) = NoValue BY <3>3 DEF PeerOf
      <4>3. QED BY <2>2, <2>3, <3>1, <3>3, <4>1, <4>2
    <3>4. CASE board[q] # NoValue /\ Boards!InvalidIn(board[q]) = {}
      <4>1. Boards!Render(q).dashboards = Boards!RenderedOf(board[q])
        BY <3>4 DEF Boards!Render
      <4>2. PeerOf(board[q]) = Boards!RenderedOf(board[q]) BY <3>4 DEF PeerOf
      <4>3. QED BY <2>2, <2>3, <3>1, <3>4, <4>1, <4>2
    <3>5. QED BY <3>2, <3>3, <3>4
  <2>4. CASE q # r
    <3>1. peer'[q] = peer[q] /\ errors'[q] = errors[q] BY <1>1, <2>1, <2>4 DEF BoardsTypeOK
    <3>2. /\ <<"changed", q>> \in todo[h] => <<"changed", q>> \in todo'[h]
          /\ <<"broken", q>> \in todo[h] => <<"broken", q>> \in todo'[h]
      BY <1>2, <1>9, <2>4, BoardsEventsDiffer
    <3>3. QED BY <1>4, <3>1, <3>2
  <2>5. QED BY <2>3, <2>4
<1>10. QED BY <1>2, <1>4, <1>6, <1>7, <1>8, <1>9, EventKinds

\* A unit of Grafana that does not lead reloads when the peer data changes.
LEMMA ConsumeShown ==
    ASSUME Boards!ConstantsOK, ProviderInv, ShownInv, NEW g \in Boards!Units,
           NEW e, Boards!Consume(g, e)
    PROVE  ShownInv'
<1>1. /\ boards.Providers \cap boards.Grafanas = {} /\ BoardsTypeOK /\ BoardsTodoInv /\ LeadsInv /\ g \in boards.Grafanas
  BY DEF Boards!ConstantsOK, ProviderInv, Boards!Consume
<1>2. /\ e \in todo[g] /\ e \in GrafanaEvents /\ UNCHANGED <<leads, used>>
      /\ todo'[g] = todo[g] \ {e}
      /\ \A h \in boards.Grafanas \ {g} :
           todo'[h] = todo[h] \cup (IF peer' # peer THEN {<<"peer", NoValue>>} ELSE {})
  BY <1>1, ConsumeEffect
<1>3. SUFFICES ASSUME used["grafana"] = 0, NEW h \in boards.Grafanas
               PROVE  shown'[h] = Boards!Loaded(peer') \/ (h \notin leads /\ <<"peer", NoValue>> \in todo'[h])
  BY <1>2 DEF ShownInv, Boards!Loaded
<1>4. shown[h] = Boards!Loaded(peer) \/ (h \notin leads /\ <<"peer", NoValue>> \in todo[h])
  BY <1>3 DEF ShownInv
<1>5. CASE ~Boards!Leads(g) \/ e = <<"peer", NoValue>>
  <2>1. /\ peer' = peer
        /\ shown'[h] = IF h = g /\ e = <<"peer", NoValue>> /\ ~Boards!Leads(g) THEN Boards!Loaded(peer) ELSE shown[h]
    BY <1>1, <1>2, <1>5, ConsumeWrites
  <2>2. Boards!Loaded(peer') = Boards!Loaded(peer) BY <2>1
  <2>3. CASE h = g
    <3>1. CASE e = <<"peer", NoValue>> BY <1>4, <2>1, <2>2, <2>3, <3>1 DEF Boards!Leads
    <3>2. CASE e # <<"peer", NoValue>> BY <1>2, <1>4, <2>1, <2>2, <2>3, <3>2
    <3>3. QED BY <3>1, <3>2
  <2>4. CASE h # g BY <1>2, <1>4, <2>1, <2>2, <2>4
  <2>5. QED BY <2>3, <2>4
<1>6. CASE Boards!Leads(g) /\ e # <<"peer", NoValue>>
  <2>1. /\ shown' = [shown EXCEPT ![g] = Boards!Loaded(peer')] \/ shown' = shown
        /\ peer' # peer => shown' = [shown EXCEPT ![g] = Boards!Loaded(peer')]
    <3>1. PICK r \in boards.Relations : e = <<"changed", r>> \/ e = <<"broken", r>>
      BY <1>2, <1>6, EventKinds
    <3>2. CASE e = <<"changed", r>> BY <1>1, <1>2, <1>6, <3>2, ConsumeWrites
    <3>3. CASE e = <<"broken", r>> BY <1>1, <1>2, <1>6, <3>3, ConsumeWrites
    <3>4. QED BY <3>1, <3>2, <3>3
  <2>2. CASE h = g
    <3>1. shown[h] = Boards!Loaded(peer) BY <1>4, <1>6, <2>2 DEF Boards!Leads
    <3>2. CASE shown' = [shown EXCEPT ![g] = Boards!Loaded(peer')]
      BY <1>1, <2>2, <3>2 DEF BoardsTypeOK
    <3>3. CASE shown' = shown /\ peer' = peer BY <3>1, <3>3
    <3>4. QED BY <2>1, <3>2, <3>3
  <2>3. CASE h # g
    <3>1. h \notin leads BY <1>1, <1>6, <2>3 DEF LeadsInv, OneLead, Boards!Leads
    <3>2. shown'[h] = shown[h] BY <1>1, <2>1, <2>3 DEF BoardsTypeOK
    <3>3. CASE peer' # peer BY <1>2, <2>3, <3>1, <3>3
    <3>4. CASE peer' = peer BY <1>2, <1>4, <2>3, <3>2, <3>4
    <3>5. QED BY <3>3, <3>4
  <2>4. QED BY <2>2, <2>3
<1>7. QED BY <1>5, <1>6

\* A step that leaves what Grafana shows and holds alone.
LEMMA ShownFrame ==
    ASSUME ShownInv, UNCHANGED <<peer, shown>>,
           used'["grafana"] = 0 => used["grafana"] = 0 /\ leads' \cap boards.Grafanas = leads \cap boards.Grafanas,
           \A g \in boards.Grafanas : <<"peer", NoValue>> \in todo[g] => <<"peer", NoValue>> \in todo'[g]
    PROVE  ShownInv'
  BY DEF ShownInv, Boards!Loaded

\* A step that reports no new error.
LEMMA ToldFrame ==
    ASSUME ToldInv,
           used'["leader"] = 0 => used["leader"] = 0 /\ leads' \cap boards.Providers = leads \cap boards.Providers,
           \A r \in boards.Relations : errors'[r] = errors[r] \/ errors'[r] = {},
           \A u \in boards.Providers : told[u] \subseteq told'[u],
           \A u \in boards.Providers \cap leads, r \in boards.Relations :
              <<"changed", r>> \in todo[u] /\ errors'[r] # {} =>
                 <<"changed", r>> \in todo'[u] \/ errors[r] \subseteq told'[u]
    PROVE  ToldInv'
<1>1. SUFFICES ASSUME used'["leader"] = 0, NEW u \in boards.Providers, u \in leads',
                      NEW r \in boards.Relations
               PROVE  errors'[r] \subseteq told'[u] \/ <<"changed", r>> \in todo'[u]
  BY DEF ToldInv
<1>2. errors[r] \subseteq told[u] \/ <<"changed", r>> \in todo[u]
  BY <1>1 DEF ToldInv
<1>3. told[u] \subseteq told'[u] /\ u \in leads BY <1>1
<1>4. CASE errors'[r] = {} BY <1>4
<1>5. CASE errors'[r] = errors[r] BY <1>2, <1>3, <1>5
<1>6. QED BY <1>1, <1>4, <1>5

LEMMA ConsumeTold ==
    ASSUME Boards!ConstantsOK, ProviderInv, ToldInv, NEW g \in Boards!Units,
           NEW e, Boards!Consume(g, e)
    PROVE  ToldInv'
<1>1. /\ boards.Providers \cap boards.Grafanas = {} /\ BoardsTypeOK /\ BoardsTodoInv /\ g \in boards.Grafanas
  BY DEF Boards!ConstantsOK, ProviderInv, Boards!Consume
<1>2. /\ UNCHANGED <<leads, told, used>>
      /\ \A p \in boards.Providers :
           todo'[p] = todo[p] \cup (IF errors' # errors THEN {<<"changed", e[2]>>} ELSE {})
  BY <1>1, ConsumeEffect
<1>3. errors' = errors \/ \E x : errors' = [errors EXCEPT ![e[2]] = x]
  BY DEF Boards!Consume
<1>4. ASSUME NEW r \in boards.Relations, NEW p \in boards.Providers
      PROVE  errors'[r] = errors[r] \/ <<"changed", r>> \in todo'[p]
  <2>1. CASE errors' = errors BY <2>1
  <2>2. CASE errors' # errors /\ r = e[2] BY <1>2, <2>2
  <2>3. CASE errors' # errors /\ r # e[2] BY <1>1, <1>3, <2>3 DEF BoardsTypeOK
  <2>4. QED BY <2>1, <2>2, <2>3
<1>5. \A p \in boards.Providers : todo[p] \subseteq todo'[p] BY <1>2
<1>6. QED BY <1>2, <1>4, <1>5 DEF ToldInv

\* A hook of a provider unit, or its charm, tells Grafana of what it publishes.
LEMMA SuppliedPeer ==
    ASSUME Boards!ConstantsOK, ProviderInv, PeerInv, ShownInv, NEW u \in boards.Providers, NEW es,
           NEW ts \in SUBSET Boards!Template, UNCHANGED <<leads, related, errors, peer, shown>>,
           used'["grafana"] = 0 => used["grafana"] = 0,
           Supplied(u, es, ts) \/ Unpublished
    PROVE  PeerInv' /\ ShownInv'
<1>1. ts # NoValue BY DEF Boards!ConstantsOK
<1>2. /\ \A r \in boards.Relations \ related : board'[r] = board[r]
      /\ \A g \in boards.Grafanas : todo[g] \subseteq todo'[g]
      /\ \A r \in related, g \in boards.Grafanas :
            board'[r] = board[r] \/ (board'[r] # NoValue /\ <<"changed", r>> \in todo'[g])
  BY <1>1 DEF Supplied, Published, Unpublished
<1>3. PeerInv' BY <1>2, PeerFrame
<1>4. ShownInv' BY <1>2, ShownFrame
<1>5. QED BY <1>3, <1>4

LEMMA ProvideTells ==
    ASSUME Boards!ConstantsOK, ProviderInv, BoardsGrafanaInv, NEW u \in Boards!Units,
           NEW e, Boards!Provide(u, e)
    PROVE  BoardsGrafanaInv'
<1>1. /\ boards.Providers \cap boards.Grafanas = {} /\ BoardsTypeOK /\ BoardsTodoInv /\ u \in boards.Providers
      /\ UNCHANGED <<leads, related, errors, peer, shown, used>>
      /\ PeerInv /\ ShownInv /\ ToldInv
  BY DEF Boards!ConstantsOK, ProviderInv, BoardsGrafanaInv, Boards!Provide, Boards!consumer
<1>2. Supplied(u, {e}, Boards!Programmed(u) \cup Boards!OnDisk(u)) \/ PassedOver(u, e)
  BY <1>1, ProvideEffect
<1>3. PeerInv' /\ ShownInv'
  <2>1. Boards!Programmed(u) \cup Boards!OnDisk(u) \in SUBSET Boards!Template BY <1>1, TemplateTypes
  <2>2. QED BY <1>1, <1>2, <2>1, SuppliedPeer DEF PassedOver
<1>4. /\ todo'[u] = todo[u] \ {e} /\ \A v \in boards.Providers \ {u} : todo'[v] = todo[v]
  BY <1>2 DEF Supplied, PassedOver
<1>5. told' = [told EXCEPT ![u] =
                  IF e[1] = "changed" /\ Boards!Leads(u) THEN told[u] \cup errors[e[2]] ELSE told[u]]
  BY DEF Boards!Provide
<1>6. \A v \in boards.Providers : told[v] \subseteq told'[v]
  BY <1>1, <1>5 DEF BoardsTypeOK
<1>7. ASSUME NEW v \in boards.Providers \cap leads,
             NEW r \in boards.Relations, <<"changed", r>> \in todo[v]
      PROVE  <<"changed", r>> \in todo'[v] \/ errors[r] \subseteq told'[v]
  <2>1. CASE v = u /\ e = <<"changed", r>>
    <3>1. e[1] = "changed" /\ e[2] = r BY <2>1
    <3>2. told'[u] = told[u] \cup errors[r]
      BY <1>1, <1>5, <1>7, <2>1, <3>1 DEF Boards!Leads, BoardsTypeOK
    <3>3. QED BY <2>1, <3>2
  <2>2. CASE ~(v = u /\ e = <<"changed", r>>) BY <1>4, <1>7, <2>2
  <2>3. QED BY <2>1, <2>2
<1>8. ToldInv' BY <1>1, <1>6, <1>7, ToldFrame
<1>9. QED BY <1>3, <1>8 DEF BoardsGrafanaInv

LEMMA ProgramTells ==
    ASSUME Boards!ConstantsOK, ProviderInv, BoardsGrafanaInv,
           NEW u \in Boards!Units, Boards!Program(u)
    PROVE  BoardsGrafanaInv'
<1>1. /\ boards.Providers \cap boards.Grafanas = {} /\ BoardsTypeOK /\ u \in boards.Providers
      /\ UNCHANGED <<leads, related, told, errors, peer, shown>> /\ Boards!Spend("program")
      /\ PeerInv /\ ShownInv /\ ToldInv
  BY DEF Boards!ConstantsOK, ProviderInv, BoardsGrafanaInv, Boards!Program, Boards!consumer
<1>2. \A k \in Boards!EnvSteps : used'[k] = 0 => used[k] = 0
  BY <1>1, SpendCounts DEF Boards!EnvSteps
<1>3. PICK ts \in SUBSET Boards!Template : Supplied(u, {}, ts)
  BY <1>1, ProgramEffect
<1>4. PeerInv' /\ ShownInv'
  BY <1>1, <1>2, <1>3, SuppliedPeer DEF Boards!EnvSteps
<1>5. \A v \in boards.Providers : todo'[v] = todo[v]
  BY <1>3 DEF Supplied
<1>6. used'["leader"] = 0 => used["leader"] = 0 BY <1>2 DEF Boards!EnvSteps
<1>7. ToldInv' BY <1>1, <1>5, <1>6, ToldFrame
<1>8. QED BY <1>4, <1>7 DEF BoardsGrafanaInv

\* Steps of the environment that write nothing in a relation.
LEMMA UpgradeTells ==
    ASSUME Boards!ConstantsOK, ProviderInv, BoardsGrafanaInv, NEW u \in Boards!Units,
           NEW c \in boards.Contents, Boards!Upgrade(u, c)
    PROVE  BoardsGrafanaInv'
<1>1. /\ BoardsTypeOK /\ UNCHANGED <<leads, related, board, told, errors, peer, shown>>
      /\ Boards!Spend("upgrade") /\ todo' = [todo EXCEPT ![u] = todo[u] \cup {<<"scan", NoValue>>}]
      /\ PeerInv /\ ShownInv /\ ToldInv
  BY DEF ProviderInv, BoardsGrafanaInv, Boards!Upgrade, Boards!consumer
<1>2. /\ used'["grafana"] = 0 => used["grafana"] = 0
      /\ used'["leader"] = 0 => used["leader"] = 0
  BY <1>1, SpendCounts DEF Boards!EnvSteps
<1>3. \A v \in Boards!Units : todo[v] \subseteq todo'[v]
  BY <1>1 DEF BoardsTypeOK
<1>4. PeerInv' BY <1>1, <1>2, <1>3, PeerFrame DEF Boards!Units
<1>5. ShownInv' BY <1>1, <1>2, <1>3, ShownFrame DEF Boards!Units
<1>6. ToldInv' BY <1>1, <1>2, <1>3, ToldFrame DEF Boards!Units
<1>7. QED BY <1>4, <1>5, <1>6 DEF BoardsGrafanaInv

LEMMA LeaderMovesTells ==
    ASSUME Boards!ConstantsOK, ProviderInv, BoardsGrafanaInv,
           NEW u \in Boards!Units, Boards!LeaderMoves(u)
    PROVE  BoardsGrafanaInv'
<1>1. /\ BoardsTypeOK /\ LeadsInv /\ UNCHANGED <<related, board, told, errors, peer, shown>>
      /\ Boards!Spend(IF u \in boards.Grafanas THEN "grafana" ELSE "leader")
      /\ todo' = [todo EXCEPT ![u] = todo[u] \cup IF u \in boards.Providers THEN {<<"scan", NoValue>>} ELSE {}]
      /\ PeerInv /\ ShownInv /\ ToldInv
  BY DEF ProviderInv, BoardsGrafanaInv, Boards!LeaderMoves, Boards!provider, Boards!consumer
<1>2. \A v \in Boards!Units : todo[v] \subseteq todo'[v]
  BY <1>1 DEF BoardsTypeOK
<1>3. /\ u \in boards.Grafanas => leads' \cap boards.Providers = leads \cap boards.Providers
      /\ u \in boards.Providers => leads' \cap boards.Grafanas = leads \cap boards.Grafanas
  BY <1>1, LeadsStep
<1>4. CASE u \in boards.Grafanas
  <2>1. used'["grafana"] # 0 /\ (used'["leader"] = 0 => used["leader"] = 0)
    BY <1>1, <1>4, SpendCounts DEF Boards!EnvSteps
  <2>2. PeerInv' /\ ShownInv' BY <2>1 DEF PeerInv, ShownInv
  <2>3. ToldInv' BY <1>1, <1>2, <1>3, <1>4, <2>1, ToldFrame DEF Boards!Units
  <2>4. QED BY <2>2, <2>3 DEF BoardsGrafanaInv
<1>5. CASE u \notin boards.Grafanas
  <2>1. used'["leader"] # 0 /\ (used'["grafana"] = 0 => used["grafana"] = 0)
    BY <1>1, <1>5, SpendCounts DEF Boards!EnvSteps
  <2>2. leads' \cap boards.Grafanas = leads \cap boards.Grafanas BY <1>3, <1>5 DEF Boards!Units
  <2>3. PeerInv' BY <1>1, <1>2, <2>1, <2>2, PeerFrame DEF Boards!Units
  <2>4. ShownInv' BY <1>1, <1>2, <2>1, <2>2, ShownFrame DEF Boards!Units
  <2>5. ToldInv' BY <2>1 DEF ToldInv
  <2>6. QED BY <2>3, <2>4, <2>5 DEF BoardsGrafanaInv
<1>6. QED BY <1>4, <1>5

LEMMA RelateTells ==
    ASSUME Boards!ConstantsOK, ProviderInv, BoardsGrafanaInv,
           NEW r \in boards.Relations, Boards!Relate(r)
    PROVE  BoardsGrafanaInv'
<1>1. /\ BoardsTypeOK /\ UNCHANGED <<leads, board, told, errors, peer, shown>> /\ Boards!Spend("relate")
      /\ todo' = [v \in Boards!Units |-> todo[v] \cup IF v \in boards.Providers THEN {<<"created", r>>} ELSE {}]
      /\ PeerInv /\ ShownInv /\ ToldInv
  BY DEF ProviderInv, BoardsGrafanaInv, Boards!Relate, Boards!provider, Boards!consumer
<1>2. /\ used'["grafana"] = 0 => used["grafana"] = 0
      /\ used'["leader"] = 0 => used["leader"] = 0
  BY <1>1, SpendCounts DEF Boards!EnvSteps
<1>3. \A v \in Boards!Units : todo[v] \subseteq todo'[v]
  BY <1>1
<1>4. ShownInv' BY <1>1, <1>2, <1>3, ShownFrame DEF Boards!Units
<1>5. ToldInv' BY <1>1, <1>2, <1>3, ToldFrame DEF Boards!Units
<1>6. QED BY <1>1, <1>4, <1>5, RelatePeer DEF BoardsGrafanaInv

LEMMA BreakTells ==
    ASSUME Boards!ConstantsOK, ProviderInv, BoardsGrafanaInv,
           NEW r \in boards.Relations, Boards!Break(r)
    PROVE  BoardsGrafanaInv'
<1>1. /\ BoardsTypeOK /\ UNCHANGED <<leads, told, peer, shown>> /\ Boards!Spend("break")
      /\ errors' = [errors EXCEPT ![r] = {}]
      /\ \A u \in Boards!Units : todo[u] \ {<<"created", r>>, <<"changed", r>>} \subseteq todo'[u]
      /\ PeerInv /\ ShownInv /\ ToldInv
  BY DEF ProviderInv, BoardsGrafanaInv, Boards!Break
<1>2. /\ used'["grafana"] = 0 => used["grafana"] = 0
      /\ used'["leader"] = 0 => used["leader"] = 0
  BY <1>1, SpendCounts DEF Boards!EnvSteps
<1>3. ShownInv'
  <2>1. \A g \in boards.Grafanas : <<"peer", NoValue>> \in todo[g] => <<"peer", NoValue>> \in todo'[g]
    BY <1>1, BoardsEventsDiffer DEF Boards!Units
  <2>2. QED BY <1>1, <1>2, <2>1, ShownFrame
<1>4. ToldInv'
  <2>1. \A q \in boards.Relations : IF q = r THEN errors'[q] = {} ELSE errors'[q] = errors[q]
    BY <1>1 DEF BoardsTypeOK
  <2>2. ASSUME NEW u \in boards.Providers,
               NEW q \in boards.Relations, <<"changed", q>> \in todo[u], q # r
        PROVE  <<"changed", q>> \in todo'[u]
    BY <1>1, <2>2, BoardsEventsDiffer DEF Boards!Units
  <2>3. QED BY <1>1, <1>2, <2>1, <2>2, ToldFrame
<1>5. QED BY <1>1, <1>3, <1>4, BreakPeer DEF BoardsGrafanaInv

LEMMA GrafanaNext ==
    ASSUME Boards!ConstantsOK, ProviderInv, BoardsGrafanaInv, [Boards!Next]_(Boards!vars)
    PROVE  BoardsGrafanaInv'
<1>1. CASE UNCHANGED Boards!vars
  BY <1>1
     DEF Boards!vars, Boards!provider, Boards!consumer, BoardsGrafanaInv, PeerInv, ShownInv,
     ToldInv, PeerOf,
              Boards!Loaded, Boards!InvalidIn, Boards!RenderedOf
<1>2. CASE Boards!Next
  <2>1. ASSUME NEW u \in Boards!Units, NEW e \in Boards!Event, Boards!Provide(u, e)
        PROVE BoardsGrafanaInv'
    BY <2>1, ProvideTells
  <2>2. ASSUME NEW u \in Boards!Units, NEW e \in Boards!Event, Boards!Consume(u, e)
        PROVE BoardsGrafanaInv'
    BY <2>2, ConsumePeer, ConsumeShown, ConsumeTold DEF BoardsGrafanaInv
  <2>3. ASSUME NEW u \in Boards!Units, Boards!LeaderMoves(u) PROVE BoardsGrafanaInv'
    BY <2>3, LeaderMovesTells
  <2>4. ASSUME NEW u \in Boards!Units, Boards!Program(u) PROVE BoardsGrafanaInv'
    BY <2>4, ProgramTells
  <2>5. ASSUME NEW u \in Boards!Units, NEW c \in boards.Contents, Boards!Upgrade(u, c)
        PROVE BoardsGrafanaInv'
    BY <2>5, UpgradeTells
  <2>6. ASSUME NEW r \in boards.Relations, Boards!Relate(r) PROVE BoardsGrafanaInv'
    BY <2>6, RelateTells
  <2>7. ASSUME NEW r \in boards.Relations, Boards!Break(r) PROVE BoardsGrafanaInv'
    BY <2>7, BreakTells
  <2>8. QED BY <1>2, <2>1, <2>2, <2>3, <2>4, <2>5, <2>6, <2>7 DEF Boards!Next
<1>3. QED BY <1>1, <1>2

LEMMA GrafanaStart ==
    ASSUME Boards!ConstantsOK, Boards!Init
    PROVE  BoardsGrafanaInv
<1>1. PeerInv
  BY DEF Boards!Init, PeerInv
<1>2. ShownInv
  <2>1. Boards!Loaded(peer) = {} BY DEF Boards!Init, Boards!Loaded
  <2>2. QED BY <2>1 DEF Boards!Init, ShownInv
<1>3. ToldInv
  BY DEF Boards!Init, ToldInv
<1>4. QED BY <1>1, <1>2, <1>3 DEF BoardsGrafanaInv

\* With every event handled, Grafana shows what the relations hold.
LEMMA ShownFollows ==
    ASSUME Boards!ConstantsOK, ProviderInv, BoardsGrafanaInv
    PROVE  Boards!GrafanaCurrent
<1>1. SUFFICES ASSUME Boards!Quiet(Boards!Units), used["grafana"] = 0, NEW g \in boards.Grafanas
               PROVE  shown[g] = {q \in related \X Boards!Template :
                        Boards!InvalidIn(board[q[1]]) = {} /\ q[2] \in Boards!RenderedOf(board[q[1]])}
  BY DEF Boards!GrafanaCurrent
<1>2. \A u \in Boards!Units : todo[u] = {} BY <1>1 DEF Boards!Quiet
<1>3. PICK h \in boards.Grafanas : h \in leads
  BY DEF ProviderInv, LeadsInv, OneLead
<1>4. shown[g] = Boards!Loaded(peer)
  BY <1>1, <1>2 DEF BoardsGrafanaInv, ShownInv, Boards!Units
<1>5. ASSUME NEW r \in related PROVE board[r] # NoValue
  <2>1. PICK u \in boards.Providers : u \in leads BY DEF ProviderInv, LeadsInv, OneLead
  <2>2. board[r] = Boards!OnDisk(u) \cup Boards!Programmed(u)
    BY <1>2, <2>1 DEF ProviderInv, BoardInv, Boards!Units
  <2>3. Boards!OnDisk(u) \cup Boards!Programmed(u) \in SUBSET Boards!Template
    BY TemplateTypes DEF ProviderInv
  <2>4. QED BY <2>2, <2>3 DEF Boards!ConstantsOK
<1>6. related \subseteq boards.Relations BY DEF ProviderInv, BoardsTypeOK
<1>7. \A r \in boards.Relations \ related : peer[r] = NoValue
  BY <1>1, <1>2, <1>3 DEF BoardsGrafanaInv, PeerInv, Boards!Units
<1>8. \A r \in related : peer[r] = PeerOf(board[r])
  BY <1>1, <1>2, <1>3, <1>5, <1>6 DEF BoardsGrafanaInv, PeerInv, Boards!Units
<1>9. ASSUME NEW r \in related, NEW t \in Boards!Template
      PROVE  (peer[r] # NoValue /\ t \in peer[r])
               <=> (Boards!InvalidIn(board[r]) = {} /\ t \in Boards!RenderedOf(board[r]))
  <2>1. CASE Boards!InvalidIn(board[r]) # {} BY <1>8, <2>1 DEF PeerOf
  <2>2. CASE Boards!InvalidIn(board[r]) = {}
    <3>1. peer[r] = Boards!RenderedOf(board[r]) BY <1>8, <2>2 DEF PeerOf
    <3>2. peer[r] \in SUBSET Boards!Template
      BY <1>5, <1>6, <3>1 DEF Boards!RenderedOf, ProviderInv, BoardsTypeOK
    <3>3. peer[r] # NoValue BY <3>2 DEF Boards!ConstantsOK
    <3>4. QED BY <2>2, <3>1, <3>3
  <2>3. QED BY <2>1, <2>2
<1>10. Boards!Loaded(peer) = {q \in related \X Boards!Template :
                               Boards!InvalidIn(board[q[1]]) = {} /\ q[2] \in Boards!RenderedOf(board[q[1]])}
  BY <1>6, <1>7, <1>9 DEF Boards!Loaded
<1>11. QED BY <1>4, <1>10

\* And the provider that leads has been told of all that Grafana refuses.
LEMMA ToldFollows ==
    ASSUME Boards!ConstantsOK, ProviderInv, BoardsGrafanaInv
    PROVE  Boards!ErrorsReachProvider
<1>1. SUFFICES ASSUME Boards!Quiet(Boards!Units), used["grafana"] = 0, used["leader"] = 0,
                      NEW r \in related
               PROVE  Boards!InvalidIn(board[r]) \subseteq told[Boards!ProviderLead]
  BY DEF Boards!ErrorsReachProvider
<1>2. \A u \in Boards!Units : todo[u] = {} BY <1>1 DEF Boards!Quiet
<1>3. PICK u \in boards.Providers : leads \cap boards.Providers = {u}
  BY DEF ProviderInv, LeadsInv, OneLead
<1>4. Boards!ProviderLead = u
  BY <1>3 DEF Boards!ProviderLead, Boards!Leads
<1>5. PICK g \in boards.Grafanas : g \in leads
  BY DEF ProviderInv, LeadsInv, OneLead
<1>6. r \in boards.Relations BY DEF ProviderInv, BoardsTypeOK
<1>7. board[r] # NoValue
  <2>1. board[r] = Boards!OnDisk(u) \cup Boards!Programmed(u)
    BY <1>2, <1>3 DEF ProviderInv, BoardInv, Boards!Units
  <2>2. Boards!OnDisk(u) \cup Boards!Programmed(u) \in SUBSET Boards!Template
    BY TemplateTypes DEF ProviderInv
  <2>3. QED BY <2>1, <2>2 DEF Boards!ConstantsOK
<1>8. Boards!InvalidIn(board[r]) \subseteq errors[r]
  BY <1>1, <1>2, <1>5, <1>6, <1>7 DEF BoardsGrafanaInv, PeerInv, Boards!Units
<1>9. errors[r] \subseteq told[u]
  BY <1>1, <1>2, <1>3, <1>6 DEF BoardsGrafanaInv, ToldInv, Boards!Units
<1>10. QED BY <1>4, <1>8, <1>9

\* While one of its units leads, Grafana shows, on every unit, what it makes of
\* the templates in the relations there are, and nothing of those that are gone.
THEOREM GrafanaStaysCurrent == ASSUME Boards!ConstantsOK
                               PROVE Boards!Spec => []Boards!GrafanaCurrent
<1>1. Boards!Init => ProviderInv /\ BoardsGrafanaInv BY ProviderStart, GrafanaStart
<1>2. ProviderInv /\ BoardsGrafanaInv /\ [Boards!Next]_(Boards!vars) => (ProviderInv /\ BoardsGrafanaInv)'
  BY ProviderNext, GrafanaNext
<1>3. ProviderInv /\ BoardsGrafanaInv => Boards!GrafanaCurrent BY ShownFollows
<1>4. QED BY <1>1, <1>2, <1>3, PTL DEF Boards!Spec

\* While neither side's leader changes, every template that Grafana refuses is
\* one that the leading provider's charm has been told of.
THEOREM ErrorsAreTold == ASSUME Boards!ConstantsOK PROVE Boards!Spec => []Boards!ErrorsReachProvider
<1>1. Boards!Init => ProviderInv /\ BoardsGrafanaInv BY ProviderStart, GrafanaStart
<1>2. ProviderInv /\ BoardsGrafanaInv /\ [Boards!Next]_(Boards!vars) => (ProviderInv /\ BoardsGrafanaInv)'
  BY ProviderNext, GrafanaNext
<1>3. ProviderInv /\ BoardsGrafanaInv => Boards!ErrorsReachProvider BY ToldFollows
<1>4. QED BY <1>1, <1>2, <1>3, PTL DEF Boards!Spec

-----------------------------------------------------------------------------
(* DashboardAggregator *)


Ids == UNION {grafana.May[a] \cup grafana.Builtin[a] : a \in Grafana!Apps}

GrafanaTypeOK ==
    /\ leader \in grafana.Units /\ related \subseteq Grafana!Apps
    /\ offer \in [Grafana!Bags -> SUBSET Ids]
    /\ grafanas \subseteq grafana.Grafanas /\ board \in [grafana.Grafanas -> SUBSET Ids]
    /\ templates \in [grafana.Units -> SUBSET Ids]
    /\ mappings \in [grafana.Units -> [Grafana!Apps -> SUBSET Ids]]
    /\ todo \in [grafana.Units -> SUBSET Grafana!Events]
    /\ used \in [Grafana!EnvSteps -> Nat]

\* What an application has is what it may have.
OwnInv ==
    /\ \A b \in Grafana!Bags : offer[b] \subseteq grafana.May[Grafana!Of(b)]
    /\ \A u \in grafana.Units, a \in Grafana!Apps : mappings[u][a] \subseteq grafana.May[a] \cup grafana.Builtin[a]

\* Changes are of applications that are related, removals of ones that are not.
GrafanaTodoInv ==
    \A u \in grafana.Units :
        /\ \A b \in Grafana!Bags : <<"changed", b>> \in todo[u] => Grafana!Of(b) \in related
        /\ \A a \in Grafana!Apps : <<"broken", a>> \in todo[u] => a \notin related

\* The leader has, or will have, what it is to pass on, and Grafana has it or
\* will be given it.
CollectedInv ==
    used["leader"] = 0 =>
        /\ \A x \in grafana.Targets : grafana.AppOf[x] \in related =>
              \/ {<<"changed", x>>, <<"changed", grafana.AppOf[x]>>} \cap todo[leader] # {}
              \/ \A c \in Grafana!Dashboards(x) : Grafana!Own(c) = {grafana.AppOf[x]} => c \in templates[leader]
        /\ \A g \in grafanas : <<"grafana", g>> \in todo[leader] \/ board[g] = templates[leader]

\* Of an application with one unit and one offer, what the leader has is in its
\* mappings, and goes with it.
MappedInv ==
    used["leader"] = 0 /\ used["offer"] <= 1 =>
        /\ used["offer"] = 0 => \A b \in Grafana!Bags : offer[b] = {}
        /\ \A a \in Grafana!Apps : a \notin related =>
              <<"broken", a>> \in todo[leader] \/ mappings[leader][a] = {}
        /\ \A x \in grafana.Targets : grafana.AppOf[x] \in related /\ Grafana!Alone(grafana.AppOf[x]) =>
              mappings[leader][grafana.AppOf[x]] \subseteq Grafana!Dashboards(x)
        /\ \A c \in templates[leader], a \in Grafana!Apps :
              Grafana!Own(c) = {a} /\ Grafana!Alone(a) => c \in mappings[leader][a]

Inv == GrafanaTypeOK /\ OwnInv /\ GrafanaTodoInv /\ CollectedInv /\ MappedInv

LEMMA GrafanaEventsDiffer ==
    /\ \A b \in Grafana!Bags : <<"changed", b>> \in Grafana!Events /\ Grafana!Of(b) \in Grafana!Apps
    /\ \A a \in Grafana!Apps : <<"broken", a>> \in Grafana!Events
    /\ \A g \in grafana.Grafanas : <<"grafana", g>> \in Grafana!Events
    /\ \A e \in Grafana!Events : \/ e[1] = "changed" /\ e[2] \in Grafana!Bags /\ e = <<"changed", e[2]>>
                                 \/ e[1] = "broken" /\ e[2] \in Grafana!Apps /\ e = <<"broken", e[2]>>
                                 \/ e[1] = "grafana" /\ e[2] \in grafana.Grafanas /\ e = <<"grafana", e[2]>>
    /\ \A x \in grafana.Targets : /\ grafana.AppOf[x] \in Grafana!Apps /\ grafana.AppOf[x] \in Grafana!Bags
                                  /\ Grafana!Of(grafana.AppOf[x]) = grafana.AppOf[x]
                                  /\ x \in Grafana!Bags /\ Grafana!Of(x) = grafana.AppOf[x]
  BY ConstantsAssumption DEF Grafana!Events, Grafana!Apps, Grafana!Bags, Grafana!Of, Grafana!ConstantsOK

LEMMA SpendTyped ==
    ASSUME GrafanaTypeOK, NEW k \in Grafana!EnvSteps \ {"all"}, Grafana!Spend(k)
    PROVE  /\ used' \in [Grafana!EnvSteps -> Nat]
           /\ used'[k] = used[k] + 1
           /\ \A j \in Grafana!EnvSteps \ {k, "all"} : used'[j] = used[j]
           /\ \A j \in Grafana!EnvSteps : used[j] \in Nat /\ used'[j] \in Nat
<1>1. used \in [Grafana!EnvSteps -> Nat] /\ "all" \in Grafana!EnvSteps
  BY DEF GrafanaTypeOK, Grafana!EnvSteps
<1>2. used' = [used EXCEPT ![k] = used[k] + 1, !["all"] = used["all"] + 1] BY DEF Grafana!Spend
<1>3. QED BY <1>1, <1>2

LEMMA OwnedIds ==
    ASSUME NEW a \in Grafana!Apps
    PROVE  /\ grafana.May[a] \cup grafana.Builtin[a] \subseteq Ids
           /\ \A c \in grafana.May[a] \cup grafana.Builtin[a] : a \in Grafana!Own(c)
  BY DEF Ids, Grafana!Own

\* The cases of a hook: what is changed, removed, passed on, or nothing.
LEMMA HookCases ==
    ASSUME Inv, NEW u \in grafana.Units, NEW e \in Grafana!Events, Grafana!Handle(u, e)
    PROVE  /\ e \in todo[u] /\ todo' = [todo EXCEPT ![u] = @ \ {e}]
           /\ UNCHANGED <<leader, related, offer, grafanas, used>>
           /\ \/ /\ e[1] = "changed" /\ u = leader /\ e[2] \in grafana.Targets /\ Grafana!Upset(u, e[2])
              \/ /\ e[1] = "changed"
                 /\ u = leader => e[2] \in grafana.Targets /\ Grafana!Dashboards(e[2]) = {}
                 /\ UNCHANGED <<Grafana!stored, board>>
              \/ /\ e[1] = "broken" /\ Grafana!RemoveDashboards(u, e[2])
              \/ /\ e[1] = "broken" /\ mappings[u][e[2]] = {} /\ UNCHANGED <<Grafana!stored, board>>
              \/ /\ e[1] = "grafana" /\ UNCHANGED Grafana!stored /\ board' = Grafana!Passed(u)
<1> USE GrafanaEventsDiffer
<1>1. CASE e[1] = "changed" /\ u = leader
  BY <1>1 DEF Grafana!Handle
<1>2. CASE e[1] = "changed" /\ u # leader
  BY <1>2 DEF Grafana!Handle
<1>3. CASE e[1] = "broken" /\ mappings[u][e[2]] # {}
  BY <1>3 DEF Grafana!Handle
<1>4. CASE e[1] = "broken" /\ mappings[u][e[2]] = {}
  BY <1>4 DEF Grafana!Handle
<1>5. CASE e[1] = "grafana"
  BY <1>5 DEF Grafana!Handle
<1>6. QED BY <1>1, <1>2, <1>3, <1>4, <1>5

LEMMA PassedOn ==
    ASSUME GrafanaTypeOK,
           NEW u \in grafana.Units, templates' \in [grafana.Units -> SUBSET Ids], board' = Grafana!Passed(u)
    PROVE  /\ board' \in [grafana.Grafanas -> SUBSET Ids]
           /\ u = leader => \A g \in grafanas : board'[g] = templates'[u]
           /\ u # leader => board' = board
  BY DEF GrafanaTypeOK, Grafana!Passed

-----------------------------------------------------------------------------
(* Hooks *)

LEMMA UpsetInv ==
    ASSUME Inv, NEW x \in grafana.Targets, <<"changed", x>> \in todo[leader],
           todo' = [todo EXCEPT ![leader] = @ \ {<<"changed", x>>}],
           UNCHANGED <<leader, related, offer, grafanas, used>>, Grafana!Upset(leader, x)
    PROVE  Inv'
<1>1. GrafanaTypeOK /\ leader \in grafana.Units /\ grafana.AppOf[x] \in Grafana!Apps /\ grafana.AppOf[x] \in related
  BY GrafanaEventsDiffer DEF Inv, GrafanaTypeOK, GrafanaTodoInv
<1>2. Grafana!Dashboards(x) \subseteq grafana.May[grafana.AppOf[x]] \cup grafana.Builtin[grafana.AppOf[x]] /\ Grafana!Dashboards(x) \subseteq Ids
  BY <1>1, OwnedIds, GrafanaEventsDiffer DEF Inv, OwnInv, Grafana!Dashboards, Grafana!Asked
<1>3. /\ templates' = [templates EXCEPT ![leader] = @ \cup Grafana!Dashboards(x)]
      /\ mappings' = [mappings EXCEPT ![leader][grafana.AppOf[x]] = Grafana!Dashboards(x)]
  BY DEF Grafana!Upset
<1>4. templates' \in [grafana.Units -> SUBSET Ids] /\ mappings' \in [grafana.Units -> [Grafana!Apps -> SUBSET Ids]]
  BY <1>1, <1>2, <1>3 DEF GrafanaTypeOK
<1>5. board' \in [grafana.Grafanas -> SUBSET Ids] /\ \A g \in grafanas : board'[g] = templates'[leader]
  BY <1>1, <1>4, PassedOn DEF Grafana!Upset
<1>6. /\ todo' \in [grafana.Units -> SUBSET Grafana!Events]
      /\ \A v \in grafana.Units : todo'[v] \subseteq todo[v]
      /\ \A e \in todo[leader] : e # <<"changed", x>> => e \in todo'[leader]
  BY <1>1 DEF GrafanaTypeOK
<1>7. GrafanaTypeOK' BY <1>1, <1>4, <1>5, <1>6 DEF GrafanaTypeOK
<1>8. \A v \in grafana.Units, a \in Grafana!Apps : mappings'[v][a] = IF v = leader /\ a = grafana.AppOf[x]
                                                                     THEN Grafana!Dashboards(x) ELSE mappings[v][a]
  BY <1>1, <1>3 DEF GrafanaTypeOK
<1>9. templates'[leader] = templates[leader] \cup Grafana!Dashboards(x)
  BY <1>1, <1>3 DEF GrafanaTypeOK
<1>10. OwnInv' BY <1>1, <1>2, <1>8 DEF Inv, OwnInv
<1>11. GrafanaTodoInv' BY <1>6 DEF Inv, GrafanaTodoInv
<1>12. \A y \in grafana.Targets : Grafana!Dashboards(y)' = Grafana!Dashboards(y)
  BY DEF Grafana!Dashboards, Grafana!Asked
<1>13. CollectedInv'
  <2> SUFFICES ASSUME used["leader"] = 0 PROVE CollectedInv'
    BY DEF CollectedInv
  <2>1. ASSUME NEW y \in grafana.Targets, grafana.AppOf[y] \in related,
               {<<"changed", y>>, <<"changed", grafana.AppOf[y]>>} \cap todo'[leader] = {},
               NEW c \in Grafana!Dashboards(y), Grafana!Own(c) = {grafana.AppOf[y]}
        PROVE  c \in templates'[leader]
    <3>1. CASE y = x BY <1>9, <2>1, <3>1
    <3>2. CASE y # x
      <4>1. {<<"changed", y>>, <<"changed", grafana.AppOf[y]>>} \cap todo[leader] = {}
        <5>1. grafana.AppOf[y] # x
          BY GrafanaEventsDiffer, ConstantsAssumption DEF Grafana!ConstantsOK
        <5>2. <<"changed", y>> # <<"changed", x>> /\ <<"changed", grafana.AppOf[y]>> # <<"changed", x>>
          BY <3>2, <5>1
        <5>3. QED BY <1>6, <2>1, <5>2
      <4>2. QED BY <1>9, <2>1, <4>1 DEF Inv, CollectedInv
    <3>3. QED BY <3>1, <3>2
  <2>2. QED BY <1>5, <1>12, <2>1 DEF CollectedInv, Grafana!Own
<1>14. MappedInv'
  <2> SUFFICES ASSUME used["leader"] = 0, used["offer"] <= 1 PROVE MappedInv'
    BY DEF MappedInv
  <2>1. \A a \in Grafana!Apps : a \notin related =>
              <<"broken", a>> \in todo'[leader] \/ mappings'[leader][a] = {}
    <3> SUFFICES ASSUME NEW a \in Grafana!Apps, a \notin related, mappings'[leader][a] # {}
                 PROVE  <<"broken", a>> \in todo'[leader]
      OBVIOUS
    <3>1. mappings'[leader][a] = mappings[leader][a] BY <1>1, <1>8
    <3>2. <<"broken", a>> \in todo[leader] BY <3>1 DEF Inv, MappedInv
    <3>3. QED BY <1>6, <3>2
  <2>2. ASSUME NEW y \in grafana.Targets, grafana.AppOf[y] \in related, Grafana!Alone(grafana.AppOf[y])
        PROVE  mappings'[leader][grafana.AppOf[y]] \subseteq Grafana!Dashboards(y)
    <3>1. CASE grafana.AppOf[y] = grafana.AppOf[x]
      <4>1. x = y BY <2>2, <3>1 DEF Grafana!Alone
      <4>2. QED BY <1>1, <1>8, <4>1
    <3>2. CASE grafana.AppOf[y] # grafana.AppOf[x]
      <4>1. mappings'[leader][grafana.AppOf[y]] = mappings[leader][grafana.AppOf[y]]
        BY <1>1, <1>8, <3>2, GrafanaEventsDiffer
      <4>2. QED BY <2>2, <4>1 DEF Inv, MappedInv
    <3>3. QED BY <3>1, <3>2
  <2>3. ASSUME NEW c \in templates'[leader],
               NEW a \in Grafana!Apps, Grafana!Own(c) = {a}, Grafana!Alone(a)
        PROVE  c \in mappings'[leader][a]
    <3>1. CASE c \in Grafana!Dashboards(x)
      <4>1. grafana.AppOf[x] = a BY <1>1, <1>2, <2>3, <3>1, OwnedIds
      <4>2. QED BY <1>1, <1>8, <3>1, <4>1
    <3>2. CASE c \notin Grafana!Dashboards(x)
      <4>1. c \in mappings[leader][a] BY <1>9, <2>3, <3>2 DEF Inv, MappedInv
      <4>2. CASE a = grafana.AppOf[x]
        <5>1. mappings[leader][a] \subseteq Grafana!Dashboards(x)
          BY <1>1, <2>3, <4>2 DEF Inv, MappedInv
        <5>2. QED BY <3>2, <4>1, <5>1
      <4>3. QED BY <1>1, <1>8, <4>1, <4>2
    <3>3. QED BY <3>1, <3>2
  <2>4. QED BY <1>12, <2>1, <2>2, <2>3 DEF Inv, MappedInv, Grafana!Own, Grafana!Alone
<1>15. QED BY <1>7, <1>10, <1>11, <1>13, <1>14 DEF Inv
LEMMA RemoveInv ==
    ASSUME Inv, NEW u \in grafana.Units, NEW a \in Grafana!Apps, <<"broken", a>> \in todo[u],
           todo' = [todo EXCEPT ![u] = @ \ {<<"broken", a>>}],
           UNCHANGED <<leader, related, offer, grafanas, used>>, Grafana!RemoveDashboards(u, a)
    PROVE  Inv'
<1>1. GrafanaTypeOK /\ leader \in grafana.Units /\ a \notin related
  BY DEF Inv, GrafanaTypeOK, GrafanaTodoInv
<1>2. /\ templates' = [templates EXCEPT ![u] = @ \ mappings[u][a]]
      /\ mappings' = [mappings EXCEPT ![u][a] = {}]
  BY DEF Grafana!RemoveDashboards
<1>3. templates' \in [grafana.Units -> SUBSET Ids] /\ mappings' \in [grafana.Units -> [Grafana!Apps -> SUBSET Ids]]
  BY <1>1, <1>2 DEF GrafanaTypeOK
<1>4. /\ board' \in [grafana.Grafanas -> SUBSET Ids]
      /\ u = leader => \A g \in grafanas : board'[g] = templates'[u]
      /\ u # leader => board' = board
  BY <1>1, <1>3, PassedOn DEF Grafana!RemoveDashboards
<1>5. /\ todo' \in [grafana.Units -> SUBSET Grafana!Events]
      /\ \A v \in grafana.Units : todo'[v] \subseteq todo[v]
      /\ \A v \in grafana.Units : \A e \in todo[v] : e # <<"broken", a>> \/ v # u => e \in todo'[v]
  BY <1>1 DEF GrafanaTypeOK
<1>6. GrafanaTypeOK' BY <1>1, <1>3, <1>4, <1>5 DEF GrafanaTypeOK
<1>7. \A v \in grafana.Units, b \in Grafana!Apps : mappings'[v][b] = IF v = u /\ b = a THEN {} ELSE mappings[v][b]
  BY <1>1, <1>2 DEF GrafanaTypeOK
<1>8. \A v \in grafana.Units : templates'[v] = IF v = u THEN templates[v] \ mappings[u][a] ELSE templates[v]
  BY <1>1, <1>2 DEF GrafanaTypeOK
<1>9. OwnInv' BY <1>1, <1>7 DEF Inv, OwnInv
<1>10. GrafanaTodoInv' BY <1>5 DEF Inv, GrafanaTodoInv
<1>11. \A y \in grafana.Targets : Grafana!Dashboards(y)' = Grafana!Dashboards(y)
  BY DEF Grafana!Dashboards, Grafana!Asked
<1>12. CollectedInv'
  <2> SUFFICES ASSUME used["leader"] = 0 PROVE CollectedInv'
    BY DEF CollectedInv
  <2>1. ASSUME NEW y \in grafana.Targets, grafana.AppOf[y] \in related,
               {<<"changed", y>>, <<"changed", grafana.AppOf[y]>>} \cap todo'[leader] = {},
               NEW c \in Grafana!Dashboards(y), Grafana!Own(c) = {grafana.AppOf[y]}
        PROVE  c \in templates'[leader]
    <3>1. c \in templates[leader] BY <1>1, <1>5, <2>1 DEF Inv, CollectedInv
    <3>2. c \notin mappings[u][a]
      <4>1. grafana.AppOf[y] # a BY <1>1, <2>1
      <4>2. a \notin Grafana!Own(c) BY <2>1, <4>1
      <4>3. QED BY <4>2, OwnedIds DEF Inv, OwnInv
    <3>3. QED BY <1>1, <1>8, <3>1, <3>2
  <2>2. ASSUME NEW g \in grafanas, <<"grafana", g>> \notin todo'[leader]
        PROVE  board'[g] = templates'[leader]
    <3>1. CASE u = leader BY <1>4, <3>1
    <3>2. CASE u # leader
      <4>1. <<"grafana", g>> \notin todo[leader] BY <1>1, <1>5, <2>2, <3>2
      <4>2. board[g] = templates[leader] BY <4>1 DEF Inv, CollectedInv
      <4>3. QED BY <1>1, <1>4, <1>8, <3>2, <4>2
    <3>3. QED BY <3>1, <3>2
  <2>3. QED BY <1>11, <2>1, <2>2 DEF CollectedInv, Grafana!Own
<1>13. MappedInv'
  <2> SUFFICES ASSUME used["leader"] = 0, used["offer"] <= 1 PROVE MappedInv'
    BY DEF MappedInv
  <2>1. ASSUME NEW b \in Grafana!Apps, b \notin related, mappings'[leader][b] # {}
        PROVE  <<"broken", b>> \in todo'[leader]
    <3>1. mappings[leader][b] # {} /\ ~(leader = u /\ b = a) BY <1>1, <1>7, <2>1
    <3>2. <<"broken", b>> \in todo[leader] BY <2>1, <3>1 DEF Inv, MappedInv
    <3>3. QED BY <1>1, <1>5, <3>1, <3>2
  <2>2. ASSUME NEW y \in grafana.Targets, grafana.AppOf[y] \in related, Grafana!Alone(grafana.AppOf[y])
        PROVE  mappings'[leader][grafana.AppOf[y]] \subseteq Grafana!Dashboards(y)
    BY <1>1, <1>7, <2>2, GrafanaEventsDiffer DEF Inv, MappedInv
  <2>3. ASSUME NEW c \in templates'[leader],
               NEW b \in Grafana!Apps, Grafana!Own(c) = {b}, Grafana!Alone(b)
        PROVE  c \in mappings'[leader][b]
    <3>1. c \in templates[leader] /\ (leader = u => c \notin mappings[u][a]) BY <1>1, <1>8, <2>3
    <3>2. c \in mappings[leader][b] BY <2>3, <3>1 DEF Inv, MappedInv
    <3>3. QED BY <1>1, <1>7, <3>1, <3>2
  <2>4. QED BY <1>11, <2>1, <2>2, <2>3 DEF Inv, MappedInv, Grafana!Own, Grafana!Alone
<1>14. QED BY <1>6, <1>9, <1>10, <1>12, <1>13 DEF Inv

\* A hook that changes nothing, or only what Grafana has, may be done with.
LEMMA OtherHookInv ==
    ASSUME Inv, NEW u \in grafana.Units, NEW e \in Grafana!Events, e \in todo[u],
           todo' = [todo EXCEPT ![u] = @ \ {e}],
           UNCHANGED <<leader, related, offer, grafanas, used, Grafana!stored>>,
           \/ e[1] # "grafana" /\ UNCHANGED board
           \/ e[1] = "grafana" /\ board' = Grafana!Passed(u),
           e[1] = "changed" /\ u = leader => e[2] \in grafana.Targets /\ Grafana!Dashboards(e[2]) = {},
           e[1] = "broken" => mappings[u][e[2]] = {}
    PROVE  Inv'
<1>1. GrafanaTypeOK /\ leader \in grafana.Units BY DEF Inv, GrafanaTypeOK
<1>2. /\ board' \in [grafana.Grafanas -> SUBSET Ids]
      /\ \A g \in grafanas : board'[g] = templates[leader] \/ UNCHANGED board
      /\ e[1] = "grafana" /\ u = leader => \A g \in grafanas : board'[g] = templates[leader]
  <2>1. CASE e[1] # "grafana" BY <1>1, <2>1 DEF GrafanaTypeOK
  <2>2. CASE e[1] = "grafana"
    <3>1. templates' \in [grafana.Units -> SUBSET Ids] /\ templates' = templates
      BY <1>1 DEF GrafanaTypeOK, Grafana!stored
    <3>2. QED BY <1>1, <2>2, <3>1, PassedOn
  <2>3. QED BY <2>1, <2>2
<1>3. /\ todo' \in [grafana.Units -> SUBSET Grafana!Events]
      /\ \A v \in grafana.Units : todo'[v] \subseteq todo[v]
      /\ \A v \in grafana.Units : \A f \in todo[v] : f # e \/ v # u => f \in todo'[v]
  BY <1>1 DEF GrafanaTypeOK
<1>4. GrafanaTypeOK' BY <1>1, <1>2, <1>3 DEF GrafanaTypeOK, Grafana!stored
<1>5. OwnInv' /\ GrafanaTodoInv' BY <1>3 DEF Inv, OwnInv, GrafanaTodoInv, Grafana!stored
<1>6. \A y \in grafana.Targets : Grafana!Dashboards(y)' = Grafana!Dashboards(y)
  BY DEF Grafana!Dashboards, Grafana!Asked
<1>7. CollectedInv'
  <2> SUFFICES ASSUME used["leader"] = 0 PROVE CollectedInv'
    BY DEF CollectedInv
  <2>1. ASSUME NEW y \in grafana.Targets, grafana.AppOf[y] \in related,
               {<<"changed", y>>, <<"changed", grafana.AppOf[y]>>} \cap todo'[leader] = {},
               NEW c \in Grafana!Dashboards(y), Grafana!Own(c) = {grafana.AppOf[y]}
        PROVE  c \in templates[leader]
    <3>1. CASE e = <<"changed", y>> /\ u = leader BY <2>1, <3>1
    <3>2. CASE ~(e = <<"changed", y>> /\ u = leader)
      <4>1. ~(e = <<"changed", grafana.AppOf[y]>> /\ u = leader)
        BY GrafanaEventsDiffer, ConstantsAssumption DEF Grafana!ConstantsOK
      <4>2. {<<"changed", y>>, <<"changed", grafana.AppOf[y]>>} \cap todo[leader] = {}
        BY <1>1, <1>3, <2>1, <3>2, <4>1
      <4>3. QED BY <2>1, <4>2 DEF Inv, CollectedInv
    <3>3. QED BY <3>1, <3>2
  <2>2. ASSUME NEW g \in grafanas, <<"grafana", g>> \notin todo'[leader]
        PROVE  board'[g] = templates[leader]
    <3>1. CASE <<"grafana", g>> \in todo[leader]
      <4>1. e = <<"grafana", g>> /\ u = leader BY <1>1, <1>3, <2>2, <3>1
      <4>2. QED BY <1>2, <2>2, <4>1
    <3>2. CASE <<"grafana", g>> \notin todo[leader]
      <4>1. board[g] = templates[leader] BY <2>2, <3>2 DEF Inv, CollectedInv
      <4>2. QED BY <1>2, <2>2, <4>1
    <3>3. QED BY <3>1, <3>2
  <2>3. QED BY <1>6, <2>1, <2>2 DEF CollectedInv, Grafana!Own, Grafana!stored
<1>8. MappedInv'
  <2> SUFFICES ASSUME used["leader"] = 0, used["offer"] <= 1 PROVE MappedInv'
    BY DEF MappedInv
  <2>1. ASSUME NEW b \in Grafana!Apps, b \notin related, mappings[leader][b] # {}
        PROVE  <<"broken", b>> \in todo'[leader]
    <3>1. <<"broken", b>> \in todo[leader] BY <2>1 DEF Inv, MappedInv
    <3>2. ~(u = leader /\ e = <<"broken", b>>) BY <2>1
    <3>3. QED BY <1>1, <1>3, <3>1, <3>2
  <2>2. QED BY <1>6, <2>1 DEF Inv, MappedInv, Grafana!Own, Grafana!Alone, Grafana!stored
<1>9. QED BY <1>4, <1>5, <1>7, <1>8 DEF Inv

LEMMA HookInv == ASSUME Inv, NEW u \in grafana.Units, NEW e \in Grafana!Events, Grafana!Handle(u, e)
                 PROVE Inv'
<1>1. /\ e \in todo[u] /\ todo' = [todo EXCEPT ![u] = @ \ {e}]
      /\ UNCHANGED <<leader, related, offer, grafanas, used>>
  BY HookCases
<1>2. CASE e[1] = "changed" /\ u = leader /\ e[2] \in grafana.Targets /\ Grafana!Upset(u, e[2])
  <2>1. e = <<"changed", e[2]>> BY <1>2, GrafanaEventsDiffer
  <2>2. QED BY <1>1, <1>2, <2>1, UpsetInv
<1>3. CASE e[1] = "broken" /\ Grafana!RemoveDashboards(u, e[2])
  <2>1. e[2] \in Grafana!Apps /\ e = <<"broken", e[2]>> BY <1>3, GrafanaEventsDiffer
  <2>2. QED BY <1>1, <1>3, <2>1, RemoveInv
<1>4. CASE /\ e[1] = "changed" /\ UNCHANGED <<Grafana!stored, board>>
           /\ u = leader => e[2] \in grafana.Targets /\ Grafana!Dashboards(e[2]) = {}
  BY <1>1, <1>4, OtherHookInv
<1>5. CASE e[1] = "broken" /\ mappings[u][e[2]] = {} /\ UNCHANGED <<Grafana!stored, board>>
  BY <1>1, <1>5, OtherHookInv
<1>6. CASE e[1] = "grafana" /\ UNCHANGED Grafana!stored /\ board' = Grafana!Passed(u)
  BY <1>1, <1>6, OtherHookInv
<1>7. QED BY <1>2, <1>3, <1>4, <1>5, <1>6, HookCases

-----------------------------------------------------------------------------
(* The environment *)

LEMMA RelateInv == ASSUME Inv, NEW a \in Grafana!Apps, Grafana!Relate(a) PROVE Inv'
<1> DEFINE new == {<<"changed", x>> : x \in {y \in grafana.Targets : grafana.AppOf[y] = a}}
<1>1. GrafanaTypeOK /\ leader \in grafana.Units BY DEF Inv, GrafanaTypeOK
<1>2. /\ a \notin related /\ \A u \in grafana.Units : <<"broken", a>> \notin todo[u]
      /\ related' = related \cup {a}
      /\ todo' = [u \in grafana.Units |-> todo[u] \cup new]
      /\ UNCHANGED <<leader, offer, grafanas, Grafana!stored, board>>
      /\ Grafana!Spend("relate")
  BY DEF Grafana!Relate, Grafana!Queue
<1>3. used' \in [Grafana!EnvSteps -> Nat] /\ used'["leader"] = used["leader"] /\ used'["offer"] = used["offer"]
  BY <1>1, <1>2, SpendTyped DEF Grafana!EnvSteps
<1>4. new \subseteq Grafana!Events BY GrafanaEventsDiffer
<1>5. GrafanaTypeOK' BY <1>1, <1>2, <1>3, <1>4 DEF GrafanaTypeOK, Grafana!stored
<1>6. \A y \in grafana.Targets : Grafana!Dashboards(y)' = Grafana!Dashboards(y)
  BY <1>2 DEF Grafana!Dashboards, Grafana!Asked
<1>7. OwnInv' BY <1>2 DEF Inv, OwnInv, Grafana!stored
<1>8. GrafanaTodoInv'
  <2>1. \A e \in new : e[1] = "changed" /\ e[2] \in grafana.Targets /\ grafana.AppOf[e[2]] = a
    OBVIOUS
  <2>2. ASSUME NEW u \in grafana.Units, NEW b \in Grafana!Bags, <<"changed", b>> \in todo'[u]
        PROVE  Grafana!Of(b) \in related'
    <3>1. CASE <<"changed", b>> \in todo[u] BY <1>2, <3>1 DEF Inv, GrafanaTodoInv
    <3>2. CASE <<"changed", b>> \in new
      <4>1. b \in grafana.Targets /\ grafana.AppOf[b] = a BY <2>1, <3>2
      <4>2. QED BY <1>2, <4>1, GrafanaEventsDiffer
    <3>3. QED BY <1>2, <2>2, <3>1, <3>2
  <2>3. ASSUME NEW u \in grafana.Units, NEW b \in Grafana!Apps, <<"broken", b>> \in todo'[u]
        PROVE  b \notin related'
    <3>1. <<"broken", b>> \in todo[u] BY <1>2, <2>1, <2>3
    <3>2. QED BY <1>2, <3>1 DEF Inv, GrafanaTodoInv
  <2>4. QED BY <2>2, <2>3 DEF GrafanaTodoInv
<1>9. CollectedInv'
  <2> SUFFICES ASSUME used["leader"] = 0 PROVE CollectedInv'
    BY <1>3 DEF CollectedInv
  <2>1. \A y \in grafana.Targets : grafana.AppOf[y] = a => <<"changed", y>> \in todo'[leader]
    BY <1>1, <1>2
  <2>2. todo[leader] \subseteq todo'[leader] BY <1>1, <1>2
  <2>3. \A y \in grafana.Targets : grafana.AppOf[y] \in related' =>
              \/ {<<"changed", y>>, <<"changed", grafana.AppOf[y]>>} \cap todo'[leader] # {}
              \/ \A c \in Grafana!Dashboards(y) : Grafana!Own(c) = {grafana.AppOf[y]} => c \in templates[leader]
    BY <1>2, <2>1, <2>2 DEF Inv, CollectedInv
  <2>4. \A g \in grafanas : <<"grafana", g>> \in todo'[leader] \/ board[g] = templates[leader]
    BY <2>2 DEF Inv, CollectedInv
  <2>5. QED BY <1>2, <1>6, <2>3, <2>4 DEF CollectedInv, Grafana!Own, Grafana!stored
<1>10. MappedInv'
  <2> SUFFICES ASSUME used["leader"] = 0, used["offer"] <= 1 PROVE MappedInv'
    BY <1>3 DEF MappedInv
  <2>1. todo[leader] \subseteq todo'[leader] BY <1>1, <1>2
  <2>2. mappings[leader][a] = {} BY <1>1, <1>2 DEF Inv, MappedInv
  <2>3. \A y \in grafana.Targets : grafana.AppOf[y] \in related' /\ Grafana!Alone(grafana.AppOf[y]) =>
              mappings[leader][grafana.AppOf[y]] \subseteq Grafana!Dashboards(y)
    BY <1>2, <2>2 DEF Inv, MappedInv
  <2>4. QED
    BY <1>2, <1>3, <1>6, <2>1, <2>3 DEF Inv, MappedInv, Grafana!Own, Grafana!Alone, Grafana!stored
<1>11. QED BY <1>5, <1>7, <1>8, <1>9, <1>10 DEF Inv

LEMMA OfferInv ==
    ASSUME Inv, NEW b \in Grafana!Bags,
           NEW cs \in SUBSET grafana.May[Grafana!Of(b)], Grafana!Offer(b, cs) PROVE Inv'
<1>1. GrafanaTypeOK /\ leader \in grafana.Units BY DEF Inv, GrafanaTypeOK
<1>2. /\ Grafana!Of(b) \in related /\ offer' = [offer EXCEPT ![b] = cs]
      /\ todo' = [u \in grafana.Units |-> todo[u] \cup {<<"changed", b>>}]
      /\ UNCHANGED <<leader, related, grafanas, Grafana!stored, board>>
      /\ Grafana!Spend("offer")
  BY DEF Grafana!Offer, Grafana!Queue
<1>3. /\ used' \in [Grafana!EnvSteps -> Nat] /\ used'["leader"] = used["leader"]
      /\ used'["offer"] = used["offer"] + 1 /\ used["offer"] \in Nat
  BY <1>1, <1>2, SpendTyped DEF Grafana!EnvSteps
<1>4. <<"changed", b>> \in Grafana!Events /\ cs \subseteq Ids BY GrafanaEventsDiffer, OwnedIds
<1>5. GrafanaTypeOK' BY <1>1, <1>2, <1>3, <1>4 DEF GrafanaTypeOK, Grafana!stored
<1>6. \A y \in Grafana!Bags : offer'[y] = IF y = b THEN cs ELSE offer[y]
  BY <1>1, <1>2 DEF GrafanaTypeOK
<1>7. OwnInv' BY <1>2, <1>6 DEF Inv, OwnInv, Grafana!stored
<1>8. GrafanaTodoInv' BY <1>1, <1>2, <1>4 DEF Inv, GrafanaTodoInv, GrafanaTypeOK
<1>9. todo'[leader] = todo[leader] \cup {<<"changed", b>>} BY <1>1, <1>2
<1>10. \A y \in grafana.Targets : y # b /\ grafana.AppOf[y] # b =>
         Grafana!Dashboards(y)' = Grafana!Dashboards(y)
  BY <1>6, GrafanaEventsDiffer DEF Grafana!Dashboards, Grafana!Asked
<1>11. CollectedInv'
  <2> SUFFICES ASSUME used["leader"] = 0 PROVE CollectedInv'
    BY <1>3 DEF CollectedInv
  <2>1. \A y \in grafana.Targets : grafana.AppOf[y] \in related =>
              \/ {<<"changed", y>>, <<"changed", grafana.AppOf[y]>>} \cap todo'[leader] # {}
              \/ \A c \in Grafana!Dashboards(y)' : Grafana!Own(c) = {grafana.AppOf[y]} => c \in templates[leader]
    BY <1>9, <1>10 DEF Inv, CollectedInv
  <2>2. QED BY <1>2, <1>9, <2>1 DEF Inv, CollectedInv, Grafana!Own, Grafana!stored
<1>12. MappedInv'
  <2> SUFFICES ASSUME used["leader"] = 0, used["offer"] = 0 PROVE MappedInv'
    BY <1>3 DEF MappedInv
  <2>1. offer[b] = {} BY DEF Inv, MappedInv
  <2>2. \A y \in grafana.Targets : Grafana!Dashboards(y) \subseteq Grafana!Dashboards(y)'
    BY <1>6, <2>1, GrafanaEventsDiffer DEF Grafana!Dashboards, Grafana!Asked
  <2>3. \A y \in grafana.Targets : grafana.AppOf[y] \in related /\ Grafana!Alone(grafana.AppOf[y]) =>
              mappings[leader][grafana.AppOf[y]] \subseteq Grafana!Dashboards(y)'
    BY <2>2 DEF Inv, MappedInv
  <2>4. QED BY <1>2, <1>3, <1>9, <2>3 DEF Inv, MappedInv, Grafana!Own, Grafana!Alone, Grafana!stored
<1>13. QED BY <1>5, <1>7, <1>8, <1>11, <1>12 DEF Inv

LEMMA BreakInv == ASSUME Inv, NEW a \in Grafana!Apps, Grafana!Break(a) PROVE Inv'
<1>1. GrafanaTypeOK /\ leader \in grafana.Units BY DEF Inv, GrafanaTypeOK
<1>2. /\ a \in related /\ related' = related \ {a}
      /\ offer' = [b \in Grafana!Bags |-> IF Grafana!Of(b) = a THEN {} ELSE offer[b]]
      /\ todo' = [u \in grafana.Units |-> {e \in todo[u] : e[1] = "changed" => Grafana!Of(e[2]) # a}
                                          \cup {<<"broken", a>>}]
      /\ UNCHANGED <<leader, grafanas, Grafana!stored, board>>
      /\ Grafana!Spend("break")
  BY DEF Grafana!Break
<1>3. used' \in [Grafana!EnvSteps -> Nat] /\ used'["leader"] = used["leader"] /\ used'["offer"] = used["offer"]
  BY <1>1, <1>2, SpendTyped DEF Grafana!EnvSteps
<1>4. <<"broken", a>> \in Grafana!Events BY GrafanaEventsDiffer
<1>5. offer' \in [Grafana!Bags -> SUBSET Ids] /\ todo' \in [grafana.Units -> SUBSET Grafana!Events]
  BY <1>1, <1>2, <1>4 DEF GrafanaTypeOK
<1>6. GrafanaTypeOK' BY <1>1, <1>2, <1>3, <1>5 DEF GrafanaTypeOK, Grafana!stored
<1>7. /\ \A y \in grafana.Targets : grafana.AppOf[y] # a => Grafana!Dashboards(y)' = Grafana!Dashboards(y)
      /\ \A b \in Grafana!Bags : offer'[b] \subseteq offer[b]
  BY <1>1, <1>2, GrafanaEventsDiffer DEF Grafana!Dashboards, Grafana!Asked, GrafanaTypeOK
<1>8. OwnInv' BY <1>2, <1>7 DEF Inv, OwnInv, Grafana!stored
<1>9. \A u \in grafana.Units :
        /\ \A b \in Grafana!Bags : <<"changed", b>> \in todo'[u] <=>
                                        <<"changed", b>> \in todo[u] /\ Grafana!Of(b) # a
        /\ \A b \in Grafana!Apps : <<"broken", b>> \in todo'[u] <=> <<"broken", b>> \in todo[u] \/ b = a
        /\ \A g \in grafana.Grafanas : <<"grafana", g>> \in todo'[u] <=> <<"grafana", g>> \in todo[u]
  BY <1>2
<1>10. GrafanaTodoInv' BY <1>2, <1>9 DEF Inv, GrafanaTodoInv
<1>11. CollectedInv'
  <2> SUFFICES ASSUME used["leader"] = 0 PROVE CollectedInv'
    BY <1>3 DEF CollectedInv
  <2>1. \A y \in grafana.Targets : grafana.AppOf[y] \in related' =>
              \/ {<<"changed", y>>, <<"changed", grafana.AppOf[y]>>} \cap todo'[leader] # {}
              \/ \A c \in Grafana!Dashboards(y)' : Grafana!Own(c) = {grafana.AppOf[y]} => c \in templates[leader]
    <3> SUFFICES ASSUME NEW y \in grafana.Targets, grafana.AppOf[y] \in related',
                        {<<"changed", y>>, <<"changed", grafana.AppOf[y]>>} \cap todo'[leader] = {},
                        NEW c \in Grafana!Dashboards(y)', Grafana!Own(c) = {grafana.AppOf[y]}
                 PROVE  c \in templates[leader]
      OBVIOUS
    <3>1. grafana.AppOf[y] \in related /\ grafana.AppOf[y] # a BY <1>2
    <3>2. c \in Grafana!Dashboards(y) BY <1>7, <3>1
    <3>3. <<"changed", y>> \notin todo[leader] /\ <<"changed", grafana.AppOf[y]>> \notin todo[leader]
      BY <1>1, <1>9, <3>1, GrafanaEventsDiffer
    <3>4. QED BY <3>1, <3>2, <3>3 DEF Inv, CollectedInv
  <2>2. \A g \in grafanas : <<"grafana", g>> \in todo'[leader] \/ board[g] = templates[leader]
    <3>1. grafanas \subseteq grafana.Grafanas BY <1>1 DEF GrafanaTypeOK
    <3>2. \A g \in grafanas : <<"grafana", g>> \in todo[leader] \/ board[g] = templates[leader]
      BY DEF Inv, CollectedInv
    <3>3. QED BY <1>1, <1>9, <3>1, <3>2
  <2>3. QED BY <1>2, <2>1, <2>2 DEF CollectedInv, Grafana!Own, Grafana!stored
<1>12. MappedInv'
  <2> SUFFICES ASSUME used["leader"] = 0, used["offer"] <= 1 PROVE MappedInv'
    BY <1>3 DEF MappedInv
  <2>1. \A b \in Grafana!Apps : b \notin related' =>
              <<"broken", b>> \in todo'[leader] \/ mappings[leader][b] = {}
    BY <1>1, <1>2, <1>9 DEF Inv, MappedInv
  <2>2. \A y \in grafana.Targets : grafana.AppOf[y] \in related' /\ Grafana!Alone(grafana.AppOf[y]) =>
              mappings[leader][grafana.AppOf[y]] \subseteq Grafana!Dashboards(y)'
    BY <1>2, <1>7 DEF Inv, MappedInv
  <2>3. used["offer"] = 0 => \A b \in Grafana!Bags : offer'[b] = {}
    BY <1>7 DEF Inv, MappedInv
  <2>4. QED
    BY <1>2, <1>3, <2>1, <2>2, <2>3 DEF Inv, MappedInv, Grafana!Own, Grafana!Alone, Grafana!stored
<1>13. QED BY <1>6, <1>8, <1>10, <1>11, <1>12 DEF Inv

LEMMA GrafanaGrafanaInv == ASSUME Inv, NEW h \in grafana.Grafanas, Grafana!RelateGrafana(h)
                           PROVE Inv'
<1>1. GrafanaTypeOK /\ leader \in grafana.Units BY DEF Inv, GrafanaTypeOK
<1>2. /\ grafanas' = grafanas \cup {h}
      /\ todo' = [u \in grafana.Units |-> todo[u] \cup {<<"grafana", h>>}]
      /\ UNCHANGED <<leader, related, offer, Grafana!stored, board>>
      /\ Grafana!Spend("grafana")
  BY DEF Grafana!RelateGrafana, Grafana!Queue
<1>3. used' \in [Grafana!EnvSteps -> Nat] /\ used'["leader"] = used["leader"] /\ used'["offer"] = used["offer"]
  BY <1>1, <1>2, SpendTyped DEF Grafana!EnvSteps
<1>4. <<"grafana", h>> \in Grafana!Events BY GrafanaEventsDiffer
<1>5. GrafanaTypeOK' BY <1>1, <1>2, <1>3, <1>4 DEF GrafanaTypeOK, Grafana!stored
<1>6. todo[leader] \subseteq todo'[leader] /\ <<"grafana", h>> \in todo'[leader] BY <1>1, <1>2
<1>7. OwnInv' /\ GrafanaTodoInv'
  BY <1>1, <1>2, <1>4 DEF Inv, OwnInv, GrafanaTodoInv, Grafana!stored, GrafanaTypeOK
<1>8. \A y \in grafana.Targets : Grafana!Dashboards(y)' = Grafana!Dashboards(y)
  BY <1>2 DEF Grafana!Dashboards, Grafana!Asked
<1>9. CollectedInv'
  <2> SUFFICES ASSUME used["leader"] = 0 PROVE CollectedInv'
    BY <1>3 DEF CollectedInv
  <2>1. \A y \in grafana.Targets : grafana.AppOf[y] \in related =>
              \/ {<<"changed", y>>, <<"changed", grafana.AppOf[y]>>} \cap todo'[leader] # {}
              \/ \A c \in Grafana!Dashboards(y) : Grafana!Own(c) = {grafana.AppOf[y]} => c \in templates[leader]
    BY <1>6 DEF Inv, CollectedInv
  <2>2. \A g \in grafanas' : <<"grafana", g>> \in todo'[leader] \/ board[g] = templates[leader]
    BY <1>2, <1>6 DEF Inv, CollectedInv
  <2>3. QED BY <1>2, <1>8, <2>1, <2>2 DEF CollectedInv, Grafana!Own, Grafana!stored
<1>10. MappedInv'
  BY <1>2, <1>3, <1>6, <1>8 DEF Inv, MappedInv, Grafana!Own, Grafana!Alone, Grafana!stored
<1>11. QED BY <1>5, <1>7, <1>9, <1>10 DEF Inv

LEMMA LeaderInv == ASSUME Inv, NEW u \in grafana.Units, Grafana!LeaderMoves(u) PROVE Inv'
<1>1. GrafanaTypeOK BY DEF Inv
<1>2. /\ used' \in [Grafana!EnvSteps -> Nat] /\ used["leader"] \in Nat
      /\ used'["leader"] = used["leader"] + 1
  BY <1>1, SpendTyped DEF Grafana!LeaderMoves, Grafana!EnvSteps
<1>3. GrafanaTypeOK' BY <1>1, <1>2 DEF Grafana!LeaderMoves, GrafanaTypeOK, Grafana!stored
<1>4. OwnInv' /\ GrafanaTodoInv'
  BY DEF Grafana!LeaderMoves, Inv, OwnInv, GrafanaTodoInv, Grafana!stored
<1>5. CollectedInv' /\ MappedInv' BY <1>2 DEF CollectedInv, MappedInv
<1>6. QED BY <1>3, <1>4, <1>5 DEF Inv

LEMMA NextInv == Inv /\ [Grafana!Next]_(Grafana!vars) => Inv'
<1> SUFFICES ASSUME Inv, [Grafana!Next]_(Grafana!vars) PROVE Inv'
  OBVIOUS
<1>1. CASE UNCHANGED Grafana!vars
  BY <1>1
     DEF Grafana!vars, Grafana!stored, Inv, GrafanaTypeOK, OwnInv, GrafanaTodoInv, CollectedInv,
     MappedInv, Grafana!Dashboards, Grafana!Asked, Grafana!Own, Grafana!Alone
<1>2. QED
  BY <1>1, HookInv, RelateInv, OfferInv, BreakInv, GrafanaGrafanaInv, LeaderInv DEF Grafana!Next

LEMMA InitInv == ASSUME Grafana!ConstantsOK, Grafana!Init PROVE Inv
<1>1. leader \in grafana.Units BY DEF Grafana!ConstantsOK, Grafana!Init
<1>2. GrafanaTypeOK BY <1>1 DEF Grafana!Init, GrafanaTypeOK
<1>3. \A k \in {"leader", "offer"} : used[k] = 0 BY DEF Grafana!Init, Grafana!EnvSteps
<1>4. OwnInv /\ GrafanaTodoInv /\ CollectedInv /\ MappedInv
  BY <1>1, <1>3 DEF Grafana!Init, OwnInv, GrafanaTodoInv, CollectedInv, MappedInv
<1>5. QED BY <1>2, <1>4 DEF Inv

\* With its events handled, and while one unit leads, the leader has passed on
\* every dashboard of a related application alone, to every Grafana, whatever
\* order applications, dashboards and Grafanas come and go in.
THEOREM NothingIsLost == ASSUME Grafana!ConstantsOK PROVE Grafana!Spec => []Grafana!NothingLost
<1>1. Inv => Grafana!NothingLost BY DEF Inv, Grafana!NothingLost, Grafana!Quiet, CollectedInv
<1>2. QED BY <1>1, InitInv, NextInv, PTL DEF Grafana!Spec

\* And it has passed on nothing of an application that is gone, where that had
\* one unit and changed its dashboards at most once.
THEOREM NothingIsLeft == ASSUME Grafana!ConstantsOK PROVE Grafana!Spec => []Grafana!NothingLeft
<1>1. Inv => Grafana!NothingLeft
  <2> SUFFICES ASSUME Inv, Grafana!Quiet, NEW g \in grafanas, NEW c \in board[g],
                      NEW a \in Grafana!Apps,
                      Grafana!Own(c) = {a}, Grafana!Alone(a), used["offer"] <= 1
               PROVE  a \in related
    BY DEF Grafana!NothingLeft
  <2>1. c \in templates[leader] BY DEF Grafana!Quiet, Inv, CollectedInv
  <2>2. c \in mappings[leader][a] BY <2>1 DEF Grafana!Quiet, Inv, MappedInv
  <2>3. QED BY <2>2 DEF Grafana!Quiet, Inv, MappedInv
<1>2. QED BY <1>1, InitInv, NextInv, PTL DEF Grafana!Spec

-----------------------------------------------------------------------------
(* Of Libraries, in every behaviour of which one of the modules runs *)

\* What runs is GrafanaDashboards all along, or never.
LEMMA BoardsRuns == Spec => []~(library = "dashboards") \/ Boards!Spec
<1>1. library = "dashboards" /\ Init => Boards!Init
  BY DEF Init
<1>2. library = "dashboards" /\ [Next]_vars => [Boards!Next]_(Boards!vars)
  BY DEF Next, vars, ofDashboards, Boards!vars, Boards!provider, Boards!consumer
<1>3. library = "dashboards" /\ [Next]_vars => (library = "dashboards")'
  BY DEF Next, vars
<1>4. ~(library = "dashboards") /\ [Next]_vars => (~(library = "dashboards"))'
  BY DEF Next, vars
<1>5. QED
  BY <1>1, <1>2, <1>3, <1>4, PTL DEF Spec, Boards!Spec

\* Once the hooks of the providers have run, each relation holds the dashboards
\* of the one that leads, those on its disk and those its charm has added.
THEOREM LibrariesPublishedCurrent == Spec => []PublishedCurrent
<1>1. Boards!Spec => []Boards!PublishedCurrent
  BY PublishedStaysCurrent, ConstantsAssumption
<1>2. QED
  BY <1>1, BoardsRuns, PTL DEF PublishedCurrent

\* And every Grafana unit shows those of each relation in which all are valid, and
\* no other, as long as its leader stays.
THEOREM LibrariesGrafanaCurrent == Spec => []GrafanaCurrent
<1>1. Boards!Spec => []Boards!GrafanaCurrent
  BY GrafanaStaysCurrent, ConstantsAssumption
<1>2. QED
  BY <1>1, BoardsRuns, PTL DEF GrafanaCurrent

\* And the provider that leads has been told of each one that Grafana refuses, as
\* long as leadership moves on neither side.
THEOREM LibrariesErrorsReachProvider == Spec => []ErrorsReachProvider
<1>1. Boards!Spec => []Boards!ErrorsReachProvider
  BY ErrorsAreTold, ConstantsAssumption
<1>2. QED
  BY <1>1, BoardsRuns, PTL DEF ErrorsReachProvider

\* What runs is DashboardAggregator all along, or never.
LEMMA GrafanaRuns == Spec => []~(library = "grafana") \/ Grafana!Spec
<1>1. library = "grafana" /\ Init => Grafana!Init
  BY DEF Init
<1>2. library = "grafana" /\ [Next]_vars => [Grafana!Next]_(Grafana!vars)
  BY DEF Next, vars, ofGrafana, Grafana!vars, Grafana!stored
<1>3. library = "grafana" /\ [Next]_vars => (library = "grafana")'
  BY DEF Next, vars
<1>4. ~(library = "grafana") /\ [Next]_vars => (~(library = "grafana"))'
  BY DEF Next, vars
<1>5. QED
  BY <1>1, <1>2, <1>3, <1>4, PTL DEF Spec, Grafana!Spec

\* Once its hooks have run, the leading aggregator has passed on to each Grafana
\* every dashboard of the applications related to it.
THEOREM LibrariesNothingLost == Spec => []NothingLost
<1>1. Grafana!Spec => []Grafana!NothingLost
  BY NothingIsLost, ConstantsAssumption
<1>2. QED
  BY <1>1, GrafanaRuns, PTL DEF NothingLost

\* And it has passed on nothing of an application that is gone, where that had
\* one unit and dashboards changed at most once.
THEOREM LibrariesNothingLeft == Spec => []NothingLeft
<1>1. Grafana!Spec => []Grafana!NothingLeft
  BY NothingIsLeft, ConstantsAssumption
<1>2. QED
  BY <1>1, GrafanaRuns, PTL DEF NothingLeft

-----------------------------------------------------------------------------
(* DashboardRendering *)

\* The panels after are those before, with datasources that are known where the
\* dashboard says what they are.
Moved(after, before, d) ==
    /\ DOMAIN after = DOMAIN before
    /\ \A i \in DOMAIN before : \E ds :
          /\ after[i] = [ds |-> ds, targets |-> before[i].targets]
          /\ Recognised(before[i].ds, d) => Known(ds)

\* What the templates, or the looks of a datasource, say is what it is turned to.
LEMMA RedirectedKnown ==
    ASSUME NEW p \in Panel, NEW d \in Dashboard, Recognised(p.ds, d)
    PROVE  /\ Known(Redirected(p.ds, d.templated, Sources(d)))
           /\ d.templated /\ DOMAIN Sources(d) = {} => Known(p.ds)
<1> DEFINE ds == p.ds
           src == Sources(d)
<1>1. /\ ds \in [form : {"none", "text", "object"}, name : STRING, braced : BOOLEAN, kind : STRING]
      /\ d.templated \in BOOLEAN
  BY DEF Panel, Dashboard
<1>2. \A k \in DOMAIN Dropdown : Dropdown[k] \in DropdownNames BY DEF DropdownNames
<1>3. ASSUME NEW k \in DOMAIN Dropdown, ds.form # "none" PROVE Known(Referring(ds, Dropdown[k]))
  <2>1. Referring(ds, Dropdown[k]).form = ds.form /\ Referring(ds, Dropdown[k]).braced
          /\ Referring(ds, Dropdown[k]).name = Dropdown[k]
    BY <1>1 DEF Referring
  <2>2. QED BY <1>2, <1>3, <2>1 DEF Known
<1>4. DOMAIN Dropdown = {"prometheus", "loki"} /\ Dropdown["prometheus"] = "prometheusds"
  BY DEF Dropdown
<1>5. ds.form # "none" BY DEF Recognised
<1>6. \/ Known(ds)
      \/ d.templated /\ ds.name \in DOMAIN src /\ src[ds.name] \in DOMAIN Dropdown
      \/ ~d.templated /\ ds.kind \in DOMAIN Dropdown
  BY DEF Recognised
<1> HIDE DEF ds, src
<1>7. CASE d.templated
  <2>1. CASE Known(ds)
    BY <1>5, <1>7, <2>1 DEF Redirected, Replaceable, ds, src
  <2>2. CASE ~Known(ds)
    <3>1. ds.name \in DOMAIN src /\ src[ds.name] \in DOMAIN Dropdown BY <1>6, <1>7, <2>2
    <3>2. Redirected(ds, d.templated, src) = Referring(ds, Dropdown[src[ds.name]])
      BY <1>5, <1>7, <2>2, <3>1 DEF Redirected, Replaceable
    <3>3. QED BY <1>3, <1>5, <3>1, <3>2 DEF ds, src
  <2>3. QED BY <2>1, <2>2
<1>8. CASE ~d.templated
  <2>1. Redirected(ds, d.templated, src) = Guessed(ds) BY <1>5, <1>8 DEF Redirected
  <2>2. CASE ds.kind \in DOMAIN Dropdown
    BY <1>3, <1>5, <1>8, <2>1, <2>2 DEF Guessed, ds, src
  <2>3. CASE ds.kind \notin DOMAIN Dropdown
    <3>1. Known(ds) BY <1>6, <1>8, <2>3
    <3>2. Guessed(ds) = ds \/ Guessed(ds) = Referring(ds, Dropdown["prometheus"])
      BY <1>4, <2>3 DEF Guessed
    <3>3. QED BY <1>3, <1>4, <1>5, <1>8, <2>1, <3>1, <3>2 DEF ds, src
  <2>4. QED BY <2>2, <2>3
<1>9. QED BY <1>1, <1>7, <1>8

LEMMA TemplatedPanels ==
    ASSUME NEW d \in Dashboard
    PROVE  Moved(TemplatePanels(d.panels, d.templated, Sources(d)), d.panels, d)
<1>1. \A i \in DOMAIN d.panels : d.panels[i] \in Panel BY DEF Dashboard
<1>2. ASSUME NEW i \in DOMAIN d.panels
      PROVE  /\ [d.panels[i] EXCEPT !.ds = Redirected(@, d.templated, Sources(d))]
                  = [ds |-> Redirected(d.panels[i].ds, d.templated, Sources(d)),
                     targets |-> d.panels[i].targets]
             /\ Recognised(d.panels[i].ds, d) =>
                  Known(Redirected(d.panels[i].ds, d.templated, Sources(d)))
  <2>1. d.panels[i] \in Panel BY <1>1
  <2>2. QED BY <2>1, RedirectedKnown DEF Panel
<1>3. QED BY <1>2 DEF TemplatePanels, Moved

LEMMA ConvertedPanels ==
    ASSUME NEW d \in Dashboard, NEW b \in BOOLEAN
    PROVE  DOMAIN Convert(d, b) = DOMAIN d /\ Moved(Convert(d, b).panels, d.panels, d)
<1> DEFINE ps == Convert(d, b).panels
<1>1. d.panels \in Seq(Panel) /\ "panels" \in DOMAIN d
  BY DEF Dashboard
<1>2. DOMAIN Convert(d, b) = DOMAIN d
  BY DEF Convert
<1>3. ps = IF ~d.templated \/ DOMAIN Sources(d) # {}
             THEN TemplatePanels(d.panels, d.templated, Sources(d)) ELSE d.panels
  BY <1>1 DEF Convert
<1> HIDE DEF ps
<1>4. CASE d.templated /\ DOMAIN Sources(d) = {}
  <2>1. ps = d.panels BY <1>3, <1>4
  <2>2. ASSUME NEW i \in DOMAIN d.panels
        PROVE  /\ d.panels[i] = [ds |-> d.panels[i].ds, targets |-> d.panels[i].targets]
               /\ Recognised(d.panels[i].ds, d) => Known(d.panels[i].ds)
    <3>1. d.panels[i] \in Panel BY <1>1
    <3>2. Recognised(d.panels[i].ds, d) => Known(d.panels[i].ds)
      BY <1>4, <3>1, RedirectedKnown
    <3>3. QED BY <3>1, <3>2 DEF Panel
  <2>3. QED BY <1>2, <2>1, <2>2 DEF Moved, ps
<1>5. CASE ~(d.templated /\ DOMAIN Sources(d) = {})
  <2>1. ps = TemplatePanels(d.panels, d.templated, Sources(d)) BY <1>3, <1>5
  <2>2. QED BY <1>2, <2>1, TemplatedPanels DEF ps
<1>6. QED BY <1>4, <1>5

LEMMA WithUidTyped ==
    ASSUME NEW d \in Dashboard, NEW u \in STRING
    PROVE  /\ WithUid(d, u) \in Dashboard /\ WithUid(d, u).panels = d.panels
           /\ \A ds : Recognised(ds, WithUid(d, u)) <=> Recognised(ds, d)
<1>1. /\ WithUid(d, u) \in Dashboard /\ WithUid(d, u).panels = d.panels
      /\ WithUid(d, u).inputs = d.inputs /\ WithUid(d, u).templated = d.templated
      /\ WithUid(d, u).templating = d.templating
  BY DEF WithUid, Dashboard
<1>2. Sources(WithUid(d, u)) = Sources(d) BY <1>1 DEF Sources
<1>3. QED BY <1>1, <1>2 DEF Recognised

LEMMA ModifiedPanel ==
    ASSUME NEW ds, NEW qs \in Seq(Target)
    PROVE  /\ Modified([ds |-> ds, targets |-> qs]).ds = ds
           /\ DOMAIN Modified([ds |-> ds, targets |-> qs]).targets = DOMAIN qs
           /\ \A j \in DOMAIN qs :
                 LET q == Modified([ds |-> ds, targets |-> qs]).targets[j]
                 IN  q.parses = qs[j].parses /\ (q.parses => q.confined)
<1> DEFINE p == [ds |-> ds, targets |-> qs]
           Query(q) == [q EXCEPT !.ranges = Restored(@), !.confined = @ \/ q.parses]
<1>1. ASSUME NEW q \in Target
      PROVE  Query(q).parses = q.parses /\ (q.parses => Query(q).confined)
  BY DEF Target
<1>2. Modified(p).targets = [j \in DOMAIN qs |-> Query(qs[j])]
  BY DEF Modified
<1>3. \A j \in DOMAIN qs : qs[j] \in Target
  OBVIOUS
<1>4. Modified(p).ds = ds
  BY DEF Modified
<1> HIDE DEF Query
<1>5. QED BY <1>1, <1>2, <1>3, <1>4

LEMMA QueryConfined == ASSUME NEW t \in Templates PROVE Confined(t)
<1> DEFINE o == t.content
           d == WithUid(o, t.altUid)
           c == Convert(d, t.inject)
           out == Rendered(t).panels
<1>1. SUFFICES ASSUME t.inject PROVE AllConfined(o.panels, out, o)
  BY DEF Confined
<1>2. /\ d \in Dashboard /\ t.inject \in BOOLEAN /\ d.panels = o.panels
      /\ \A ds : Recognised(ds, d) <=> Recognised(ds, o)
  BY WithUidTyped DEF Templates
<1>3. DOMAIN c = DOMAIN d /\ Moved(c.panels, o.panels, d)
  BY <1>2, ConvertedPanels
<1>4. o.panels \in Seq(Panel) /\ "panels" \in DOMAIN d BY <1>2 DEF Dashboard
<1>5. Rendered(t) = InjectLabels(c) BY <1>1 DEF Rendered
<1> HIDE DEF o, c, d
<1>6. out = [i \in DOMAIN c.panels |->
          IF Known(c.panels[i].ds) THEN Modified(c.panels[i]) ELSE c.panels[i]]
  BY <1>3, <1>4, <1>5 DEF InjectLabels
<1> HIDE DEF out
<1>7. ASSUME NEW i \in DOMAIN o.panels, Recognised(o.panels[i].ds, o),
             NEW j \in DOMAIN o.panels[i].targets, o.panels[i].targets[j].parses
      PROVE  out[i].targets[j].confined
  <2> DEFINE qs == o.panels[i].targets
  <2>1. PICK ds : c.panels[i] = [ds |-> ds, targets |-> qs]
                    /\ (Recognised(o.panels[i].ds, d) => Known(ds))
    BY <1>3, <1>7 DEF Moved
  <2>2. qs \in Seq(Target)
    <3>1. o.panels[i] \in Panel BY <1>4, <1>7
    <3>2. QED BY <3>1 DEF Panel
  <2>3. Known(c.panels[i].ds) BY <1>2, <1>7, <2>1
  <2>4. i \in DOMAIN c.panels BY <1>3, <1>7 DEF Moved
  <2>5. out[i] = Modified([ds |-> ds, targets |-> qs]) BY <1>6, <2>1, <2>3, <2>4
  <2>6. QED BY <1>7, <2>2, <2>5, ModifiedPanel
<1>8. QED BY <1>7 DEF AllConfined

\* Every query that cos-tool parses, of a top-level panel whose template says
\* that it shows a Prometheus or a Loki, in whichever form, is confined to the
\* topology of the charm where there is one.
THEOREM LibrariesQueriesConfined == Spec => []QueriesConfined
<1> DEFINE SampleInv == library = "rendering" => sample \in Samples
<1>1. Init => SampleInv
  BY DEF Init
<1>2. SampleInv /\ [Next]_vars => SampleInv'
  BY DEF Next, vars
<1>3. SampleInv => QueriesConfined
  BY QueryConfined, ConstantsAssumption DEF QueriesConfined
<1>4. QED BY <1>1, <1>2, <1>3, PTL DEF Spec

=============================================================================
