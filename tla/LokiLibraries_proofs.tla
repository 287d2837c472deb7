------------------------- MODULE LokiLibraries_proofs -------------------------
(* What TLAPS proves of LokiPush and LogProxy: for any units, containers,  *)
(* relations and rules, and however often the environment acts.            *)
EXTENDS Libraries, TLAPS

-----------------------------------------------------------------------------
(* LokiPush *)


\* What a Loki unit, and a client, may be told.
LokiEvents   == ({"joined", "changed", "departed", "broken"} \X Loki!Relations) \cup {<<"upgrade", Loki!None>>}
ClientEvents == {"joined", "changed", "upgrade"} \X {Loki!None}

RuleSets == {Loki!NoRules} \cup {Loki!AlertRules(d, r) : d \in lokiPush.Disks, r \in Loki!Relations}

LokiTypeOK ==
    /\ leader \in lokiPush.Lokis
    /\ url \in [lokiPush.Lokis -> lokiPush.Urls]
    /\ related \subseteq Loki!Relations
    /\ disk \in [Loki!Relations -> lokiPush.Disks]
    /\ endpoint \in [Loki!Relations -> [lokiPush.Lokis -> lokiPush.Urls \cup {Loki!None}]]
    /\ rules \in [Loki!Relations -> RuleSets]
    /\ event \subseteq related
    /\ files \in [lokiPush.Lokis -> SUBSET (Loki!Relations \X RuleSets)]
    /\ todo \in [Loki!Actors -> SUBSET Loki!Events]
    /\ used \in [Loki!EnvSteps -> Nat]

\* Events reach the actors they are for, and clients that are related.
TodoInv ==
    /\ \A l \in lokiPush.Lokis : todo[l] \subseteq LokiEvents
    /\ \A r \in Loki!Relations : todo[r] \subseteq ClientEvents /\ (r \notin related => todo[r] = {})

\* A relation that is gone holds no rules; in the others, the client has
\* published those of its revision, or has yet to handle an event.
RulesInv ==
    \A r \in Loki!Relations :
        IF r \notin related THEN rules[r] = Loki!NoRules
        ELSE rules[r] = Loki!AlertRules(disk[r], r) \/ {<<"joined", Loki!None>>, <<"upgrade", Loki!None>>} \cap todo[r] # {}

\* The hooks of l that are due will have it take the alerts anew.
Refreshed(l) ==
    \E r \in Loki!Relations : \/ <<"broken", r>> \in todo[l]
                              \/ r \in related /\ Loki!HasRules(r) /\ <<"changed", r>> \in todo[l]

\* What Loki unit l has written is what is published, or it will look again.
FilesInv == \A l \in lokiPush.Lokis : files[l] = Loki!Alerts \/ Refreshed(l)

\* Without removed relations, a unit's URL is where it should be, or due.
EndpointInv ==
    used["break"] = 0 => \A l \in lokiPush.Lokis : \A r \in related :
        \/ endpoint[r][l] = url[l]
        \/ {<<"changed", r>>, <<"upgrade", Loki!None>>} \cap todo[l] # {}
        \/ \E q \in related : Loki!IsBefore(q, r) /\ Loki!HasRules(q)

\* While one unit leads, what is invalid is reported or will be; the client
\* knows of a report or has yet to be told.
ReportInv ==
    /\ used["leader"] = 0 => \A r \in Loki!Invalid : r \in event \/ <<"changed", r>> \in todo[leader]
    /\ \A r \in event : r \in told \/ <<"changed", Loki!None>> \in todo[r]

LokiInv == LokiTypeOK /\ TodoInv /\ RulesInv /\ FilesInv /\ EndpointInv /\ ReportInv

-----------------------------------------------------------------------------
\* Events of different kinds, or of different relations, differ.
LEMMA EventsDiffer ==
    ASSUME NEW r, NEW q
    PROVE  /\ <<"changed", r>> # <<"broken", q>> /\ <<"changed", r>> # <<"joined", q>>
           /\ <<"joined", r>> # <<"broken", q>>
           /\ <<"upgrade", Loki!None>> \notin {<<"joined", r>>, <<"changed", r>>, <<"broken", r>>}
           /\ r # q => /\ <<"joined", r>> # <<"joined", q>> /\ <<"changed", r>> # <<"changed", q>>
                       /\ <<"broken", r>> # <<"broken", q>>
  OBVIOUS

LEMMA EventKinds ==
    /\ LokiEvents \subseteq Loki!Events /\ ClientEvents \subseteq Loki!Events
    /\ \A r \in Loki!Relations : /\ <<"joined", r>> \in LokiEvents /\ <<"changed", r>> \in LokiEvents
                                 /\ <<"broken", r>> \in LokiEvents /\ <<"departed", r>> \in LokiEvents
    /\ <<"upgrade", Loki!None>> \in LokiEvents
    /\ <<"joined", Loki!None>> \in ClientEvents /\ <<"changed", Loki!None>> \in ClientEvents
    /\ <<"upgrade", Loki!None>> \in ClientEvents
  BY DEF LokiEvents, ClientEvents, Loki!Events

LEMMA SpendCounts ==
    ASSUME LokiTypeOK, NEW k \in Loki!EnvSteps, Loki!Spend(k)
    PROVE  /\ used' \in [Loki!EnvSteps -> Nat] /\ used'[k] # 0
           /\ \A j \in Loki!EnvSteps : used'[j] = 0 => used[j] = 0
<1>1. used' = [used EXCEPT ![k] = used[k] + 1, !["all"] = used["all"] + 1]
  BY DEF Loki!Spend
<1>2. used \in [Loki!EnvSteps -> Nat] /\ "all" \in Loki!EnvSteps BY DEF LokiTypeOK, Loki!EnvSteps
<1>3. \A j \in Loki!EnvSteps : used'[j] \in {used[j], used[j] + 1, used[j] + 2}
  BY <1>1, <1>2
<1>4. used'[k] # used[k] /\ used'[k] \in {used[k] + 1, used[k] + 2}
  BY <1>1, <1>2
<1>5. used' \in [Loki!EnvSteps -> Nat]
  BY <1>1, <1>2
<1>6. QED BY <1>2, <1>3, <1>4, <1>5

\* Who is told of an event, and who has handled one.
LEMMA ToldEffect ==
    ASSUME LokiTypeOK, NEW xs, NEW e
    PROVE  /\ Loki!Told(xs, e) = [x \in Loki!Actors |-> IF x \in xs THEN todo[x] \cup {e} ELSE todo[x]]
           /\ e \in Loki!Events => Loki!Told(xs, e) \in [Loki!Actors -> SUBSET Loki!Events]
           /\ \A x \in Loki!Actors : todo[x] \subseteq Loki!Told(xs, e)[x]
  BY DEF Loki!Told, LokiTypeOK

\* What is invalid, and what Loki takes, depends on the relations and rules.
LEMMA AlertsKept ==
    ASSUME UNCHANGED <<related, rules>>
    PROVE  /\ Loki!Alerts' = Loki!Alerts /\ Loki!Invalid' = Loki!Invalid
           /\ \A r : Loki!HasRules(r)' = Loki!HasRules(r)
  BY DEF Loki!Alerts, Loki!Invalid, Loki!HasRules

\* The rules of a client's revision are some, even if there is none in them.
LEMMA RulesTypes ==
    ASSUME Loki!ConstantsOK, LokiTypeOK, NEW r \in Loki!Relations
    PROVE  Loki!AlertRules(disk[r], r) \in RuleSets /\ Loki!AlertRules(disk[r], r) # Loki!NoRules
  BY DEF Loki!ConstantsOK, LokiTypeOK, RuleSets

-----------------------------------------------------------------------------
(* A hook of Loki *)

LEMMA AlertsTypes ==
    ASSUME LokiTypeOK
    PROVE  Loki!Alerts \in SUBSET (Loki!Relations \X RuleSets)
  BY DEF Loki!Alerts, LokiTypeOK

LEMMA HandleEffect ==
    ASSUME Loki!ConstantsOK, LokiTypeOK, TodoInv, NEW l \in lokiPush.Lokis, NEW e, Loki!Handle(l, e)
    PROVE  /\ UNCHANGED <<leader, url, related, disk, told, rules, used>>
           /\ e \in todo[l] /\ e \in LokiEvents
           /\ todo'[l] = todo[l] \ {e} /\ \A k \in lokiPush.Lokis \ {l} : todo'[k] = todo[k]
           /\ \A r \in Loki!Relations :
                todo'[r] = IF r \in event' \ event THEN todo[r] \cup {<<"changed", Loki!None>>} ELSE todo[r]
           /\ files' = IF Loki!Refreshes(e) THEN [files EXCEPT ![l] = Loki!Alerts] ELSE files
           /\ event' = IF Loki!Refreshes(e) THEN event \cup Loki!Invalid ELSE event
           /\ Loki!Invalid \subseteq related
           /\ todo' \in [Loki!Actors -> SUBSET Loki!Events]
<1>1. UNCHANGED <<leader, url, related, disk, told, rules, used>>
  BY DEF Loki!Handle, Loki!client
<1>2. e \in todo[l] /\ e \in LokiEvents
  BY DEF Loki!Handle, TodoInv
<1>3. /\ files' = IF Loki!Refreshes(e) THEN [files EXCEPT ![l] = Loki!Alerts] ELSE files
      /\ event' = IF Loki!Refreshes(e) THEN event \cup Loki!Invalid ELSE event
  BY DEF Loki!Handle, Loki!Reported
<1>4. Loki!Invalid \subseteq related BY DEF Loki!Invalid
<1>5. event' \subseteq Loki!Relations BY <1>3, <1>4 DEF LokiTypeOK
<1> DEFINE new == event' \ event
           q == Loki!Told(new, <<"changed", Loki!None>>)
<1>6. todo' = [q EXCEPT ![l] = q[l] \ {e}]
  BY DEF Loki!Handle, Loki!Without
<1>7. /\ q = [x \in Loki!Actors |-> IF x \in new THEN todo[x] \cup {<<"changed", Loki!None>>} ELSE todo[x]]
      /\ q \in [Loki!Actors -> SUBSET Loki!Events]
  <2>1. <<"changed", Loki!None>> \in Loki!Events BY EventKinds
  <2>2. q = [x \in Loki!Actors |-> IF x \in new THEN todo[x] \cup {<<"changed", Loki!None>>} ELSE todo[x]]
    BY DEF Loki!Told
  <2>3. QED BY <2>1, <2>2 DEF LokiTypeOK
<1>8. l \in Loki!Actors /\ l \notin new /\ lokiPush.Lokis \cap Loki!Relations = {}
  BY <1>5 DEF Loki!Actors, Loki!ConstantsOK
<1> HIDE DEF q, new
<1>9. /\ \A x \in Loki!Actors \ {l} : todo'[x] = q[x]
      /\ todo'[l] = q[l] \ {e}
      /\ todo' \in [Loki!Actors -> SUBSET Loki!Events]
  BY <1>6, <1>7, <1>8
<1>10. \A k \in lokiPush.Lokis : k \in Loki!Actors /\ k \notin new
  BY <1>5, <1>8 DEF Loki!Actors, new
<1>11. todo'[l] = todo[l] \ {e} /\ \A k \in lokiPush.Lokis \ {l} : todo'[k] = todo[k]
  BY <1>7, <1>9, <1>10
<1>12. \A r \in Loki!Relations :
         todo'[r] = IF r \in new THEN todo[r] \cup {<<"changed", Loki!None>>} ELSE todo[r]
  BY <1>7, <1>8, <1>9 DEF Loki!Actors
<1>13. QED BY <1>1, <1>2, <1>3, <1>4, <1>9, <1>11, <1>12 DEF new

LEMMA HandleTypes ==
    ASSUME Loki!ConstantsOK, LokiTypeOK, TodoInv, NEW l \in lokiPush.Lokis, NEW e, Loki!Handle(l, e)
    PROVE  LokiTypeOK' /\ TodoInv'
<1>1. /\ UNCHANGED <<leader, url, related, disk, told, rules, used>>
      /\ todo'[l] = todo[l] \ {e} /\ \A k \in lokiPush.Lokis \ {l} : todo'[k] = todo[k]
      /\ \A r \in Loki!Relations :
           todo'[r] = IF r \in event' \ event THEN todo[r] \cup {<<"changed", Loki!None>>} ELSE todo[r]
      /\ files' = IF Loki!Refreshes(e) THEN [files EXCEPT ![l] = Loki!Alerts] ELSE files
      /\ event' = IF Loki!Refreshes(e) THEN event \cup Loki!Invalid ELSE event
      /\ Loki!Invalid \subseteq related
      /\ todo' \in [Loki!Actors -> SUBSET Loki!Events]
  BY HandleEffect
<1>2. files' \in [lokiPush.Lokis -> SUBSET (Loki!Relations \X RuleSets)]
  BY <1>1, AlertsTypes DEF LokiTypeOK
<1>3. event' \subseteq related BY <1>1 DEF LokiTypeOK
<1>4. endpoint' \in [Loki!Relations -> [lokiPush.Lokis -> lokiPush.Urls \cup {Loki!None}]]
  BY DEF Loki!Handle, LokiTypeOK
<1>5. LokiTypeOK' BY <1>1, <1>2, <1>3, <1>4 DEF LokiTypeOK
<1>6. TodoInv'
  <2>1. \A k \in lokiPush.Lokis : todo'[k] \subseteq LokiEvents BY <1>1 DEF TodoInv
  <2>2. ASSUME NEW r \in Loki!Relations
        PROVE  todo'[r] \subseteq ClientEvents /\ (r \notin related => todo'[r] = {})
    <3>1. todo[r] \subseteq ClientEvents /\ (r \notin related => todo[r] = {})
      BY DEF TodoInv
    <3>2. <<"changed", Loki!None>> \in ClientEvents BY EventKinds
    <3>3. r \in event' \ event => r \in related BY <1>3
    <3>4. QED BY <1>1, <3>1, <3>2, <3>3
  <2>3. QED BY <1>1, <2>1, <2>2 DEF TodoInv
<1>7. QED BY <1>5, <1>6

\* The hooks that make it look again are those for which it refreshes.
LEMMA HandleFiles ==
    ASSUME Loki!ConstantsOK, LokiTypeOK, TodoInv, FilesInv, NEW l \in lokiPush.Lokis,
           NEW e, Loki!Handle(l, e)
    PROVE  FilesInv'
<1>1. /\ UNCHANGED <<related, rules>>
      /\ todo'[l] = todo[l] \ {e} /\ \A k \in lokiPush.Lokis \ {l} : todo'[k] = todo[k]
      /\ files' = IF Loki!Refreshes(e) THEN [files EXCEPT ![l] = Loki!Alerts] ELSE files
  BY HandleEffect
<1>2. Loki!Alerts' = Loki!Alerts /\ \A r : Loki!HasRules(r)' = Loki!HasRules(r)
  BY <1>1, AlertsKept
<1>3. SUFFICES ASSUME NEW k \in lokiPush.Lokis, ~Refreshed(k)'
               PROVE  files'[k] = Loki!Alerts
  BY <1>2 DEF FilesInv
<1>4. /\ \A r \in Loki!Relations : <<"broken", r>> \notin todo'[k]
      /\ \A r \in Loki!Relations : r \in related /\ Loki!HasRules(r) => <<"changed", r>> \notin todo'[k]
  BY <1>1, <1>2, <1>3 DEF Refreshed
<1>5. files[k] = Loki!Alerts \/ Refreshed(k) BY DEF FilesInv
<1>6. CASE k # l
  <2>1. files'[k] = files[k] BY <1>1, <1>6 DEF LokiTypeOK
  <2>2. ~Refreshed(k) BY <1>1, <1>4, <1>6 DEF Refreshed
  <2>3. QED BY <1>5, <2>1, <2>2
<1>7. CASE k = l /\ Loki!Refreshes(e)
  BY <1>1, <1>7 DEF LokiTypeOK
<1>8. CASE k = l /\ ~Loki!Refreshes(e)
  <2>1. files'[k] = files[k] BY <1>1, <1>8
  <2>2. ASSUME NEW r \in Loki!Relations, <<"broken", r>> \in todo[l] PROVE FALSE
    <3>1. e = <<"broken", r>> BY <1>1, <1>4, <1>8, <2>2
    <3>2. QED BY <1>8, <3>1 DEF Loki!Refreshes
  <2>3. ASSUME NEW r \in Loki!Relations, r \in related, Loki!HasRules(r), <<"changed", r>> \in todo[l]
        PROVE FALSE
    <3>1. e = <<"changed", r>> BY <1>1, <1>4, <1>8, <2>3
    <3>2. r \in Loki!Processes(e) BY <2>3, <3>1 DEF Loki!Processes
    <3>3. QED BY <1>8, <2>3, <3>2 DEF Loki!Refreshes
  <2>4. QED BY <1>5, <1>8, <2>1, <2>2, <2>3 DEF Refreshed
<1>9. QED BY <1>6, <1>7, <1>8

\* An upgraded unit goes as far as the first relation with rules.
LEMMA HandleEndpoint ==
    ASSUME Loki!ConstantsOK, LokiTypeOK, TodoInv, EndpointInv, NEW l \in lokiPush.Lokis,
           NEW e, Loki!Handle(l, e)
    PROVE  EndpointInv'
<1>1. /\ UNCHANGED <<related, rules, url, used>>
      /\ todo'[l] = todo[l] \ {e} /\ \A k \in lokiPush.Lokis \ {l} : todo'[k] = todo[k]
      /\ endpoint' = [r \in Loki!Relations |-> IF r \in Loki!Processes(e)
                      THEN [endpoint[r] EXCEPT ![l] = url[l]] ELSE endpoint[r]]
  BY HandleEffect DEF Loki!Handle
<1>2. \A r : Loki!HasRules(r)' = Loki!HasRules(r)
  BY <1>1, AlertsKept
<1>3. SUFFICES ASSUME used["break"] = 0, NEW k \in lokiPush.Lokis, NEW r \in related
               PROVE  \/ endpoint'[r][k] = url[k]
                      \/ {<<"changed", r>>, <<"upgrade", Loki!None>>} \cap todo'[k] # {}
                      \/ \E q \in related : Loki!IsBefore(q, r) /\ Loki!HasRules(q)
  BY <1>1, <1>2 DEF EndpointInv
<1>4. \/ endpoint[r][k] = url[k]
      \/ <<"changed", r>> \in todo[k] \/ <<"upgrade", Loki!None>> \in todo[k]
      \/ \E q \in related : Loki!IsBefore(q, r) /\ Loki!HasRules(q)
  BY <1>3 DEF EndpointInv
<1>5. r \in Loki!Relations /\ endpoint[r] \in [lokiPush.Lokis -> lokiPush.Urls \cup {Loki!None}]
  BY DEF LokiTypeOK
<1>6. CASE k # l
  <2>1. endpoint'[r][k] = endpoint[r][k] BY <1>1, <1>5, <1>6
  <2>2. QED BY <1>1, <1>4, <1>6, <2>1
<1>7. CASE k = l /\ r \in Loki!Processes(e)
  BY <1>1, <1>5, <1>7
<1>8. CASE k = l /\ r \notin Loki!Processes(e)
  <2>1. endpoint'[r] = endpoint[r] BY <1>1, <1>5, <1>8
  <2>2. e # <<"changed", r>> BY <1>8 DEF Loki!Processes
  <2>3. e = <<"upgrade", Loki!None>> => \E q \in related : Loki!IsBefore(q, r) /\ Loki!HasRules(q)
    BY <1>8 DEF Loki!Processes
  <2>4. QED BY <1>1, <1>4, <1>8, <2>1, <2>2, <2>3
<1>9. QED BY <1>6, <1>7, <1>8

LEMMA HandleReport ==
    ASSUME Loki!ConstantsOK, LokiTypeOK, TodoInv, ReportInv, NEW l \in lokiPush.Lokis,
           NEW e, Loki!Handle(l, e)
    PROVE  ReportInv'
<1>1. /\ UNCHANGED <<leader, related, told, rules, used>>
      /\ todo'[l] = todo[l] \ {e} /\ \A k \in lokiPush.Lokis \ {l} : todo'[k] = todo[k]
      /\ \A r \in Loki!Relations :
           todo'[r] = IF r \in event' \ event THEN todo[r] \cup {<<"changed", Loki!None>>} ELSE todo[r]
      /\ event' = IF Loki!Refreshes(e) THEN event \cup Loki!Invalid ELSE event
      /\ Loki!Invalid \subseteq related /\ leader \in lokiPush.Lokis /\ related \subseteq Loki!Relations
      /\ event \subseteq related
  BY HandleEffect DEF LokiTypeOK
<1>2. Loki!Invalid' = Loki!Invalid BY <1>1, AlertsKept
<1>3. ASSUME used["leader"] = 0, NEW r \in Loki!Invalid
      PROVE  r \in event' \/ <<"changed", r>> \in todo'[leader]
  <2>1. r \in event \/ <<"changed", r>> \in todo[leader] BY <1>3 DEF ReportInv
  <2>2. CASE Loki!Refreshes(e) BY <1>1, <2>2
  <2>3. CASE ~Loki!Refreshes(e)
    <3>1. e # <<"changed", r>>
      <4>1. r \in related /\ Loki!HasRules(r) BY DEF Loki!Invalid
      <4>2. e = <<"changed", r>> => r \in Loki!Processes(e) BY <4>1 DEF Loki!Processes
      <4>3. QED BY <2>3, <4>1, <4>2 DEF Loki!Refreshes
    <3>2. QED BY <1>1, <2>1, <2>3, <3>1
  <2>4. QED BY <2>2, <2>3
<1>4. ASSUME NEW r \in event' PROVE r \in told \/ <<"changed", Loki!None>> \in todo'[r]
  <2>1. r \in Loki!Relations BY <1>1
  <2>2. CASE r \in event BY <1>1, <2>1, <2>2 DEF ReportInv
  <2>3. CASE r \notin event BY <1>1, <2>1, <2>3
  <2>4. QED BY <2>2, <2>3
<1>5. QED BY <1>1, <1>2, <1>3, <1>4 DEF ReportInv

LEMMA HandleRules ==
    ASSUME Loki!ConstantsOK, LokiTypeOK, TodoInv, RulesInv, NEW l \in lokiPush.Lokis,
           NEW e, Loki!Handle(l, e)
    PROVE  RulesInv'
<1>1. /\ UNCHANGED <<related, disk, rules>>
      /\ \A r \in Loki!Relations : todo[r] \subseteq todo'[r]
  BY HandleEffect
<1>2. QED BY <1>1 DEF RulesInv

LEMMA HandleStep ==
    ASSUME Loki!ConstantsOK, LokiInv, NEW l \in lokiPush.Lokis, NEW e, Loki!Handle(l, e)
    PROVE  LokiInv'
  BY HandleTypes, HandleFiles, HandleEndpoint, HandleReport, HandleRules DEF LokiInv

-----------------------------------------------------------------------------
(* A hook of a client *)

LEMMA ClientEffect ==
    ASSUME Loki!ConstantsOK, LokiTypeOK, TodoInv, NEW r \in Loki!Relations,
           NEW e, Loki!HandleClient(r, e)
    PROVE  /\ UNCHANGED <<leader, url, files, related, disk, endpoint, event, used>>
           /\ e \in todo[r] /\ e \in ClientEvents /\ r \in related
           /\ e = <<"changed", Loki!None>> =>
                rules' = rules /\ told' = told \cup ({r} \cap event)
           /\ e # <<"changed", Loki!None>> =>
                rules' = [rules EXCEPT ![r] = Loki!AlertRules(disk[r], r)] /\ told' = told
           /\ todo'[r] = todo[r] \ {e} /\ \A q \in Loki!Relations \ {r} : todo'[q] = todo[q]
           /\ \A l \in lokiPush.Lokis :
                todo'[l] = IF rules' # rules THEN todo[l] \cup {<<"changed", r>>} ELSE todo[l]
           /\ todo' \in [Loki!Actors -> SUBSET Loki!Events]
<1>1. UNCHANGED <<leader, url, files, related, disk, endpoint, event, used>>
  BY DEF Loki!HandleClient, Loki!loki
<1>2. e \in todo[r] /\ e \in ClientEvents /\ r \in related
  BY DEF Loki!HandleClient, TodoInv
<1>3. e[1] \in {"joined", "changed", "upgrade"} /\ (e[1] = "changed" <=> e = <<"changed", Loki!None>>)
  BY <1>2 DEF ClientEvents
<1>4. /\ e = <<"changed", Loki!None>> =>
           rules' = rules /\ told' = told \cup ({r} \cap event)
      /\ e # <<"changed", Loki!None>> =>
           rules' = [rules EXCEPT ![r] = Loki!AlertRules(disk[r], r)] /\ told' = told
  BY <1>3 DEF Loki!HandleClient
<1> DEFINE q == IF rules' # rules THEN Loki!Told(lokiPush.Lokis, <<"changed", r>>) ELSE todo
<1>5. todo' = [q EXCEPT ![r] = q[r] \ {e}]
  BY DEF Loki!HandleClient, Loki!Without
<1>6. r \in Loki!Actors /\ r \notin lokiPush.Lokis /\ \A l \in lokiPush.Lokis : l \notin Loki!Relations /\ l \in Loki!Actors
  BY DEF Loki!Actors, Loki!ConstantsOK
<1>7. q \in [Loki!Actors -> SUBSET Loki!Events]
  <2>1. <<"changed", r>> \in Loki!Events BY EventKinds
  <2>2. Loki!Told(lokiPush.Lokis, <<"changed", r>>) =
          [x \in Loki!Actors |-> IF x \in lokiPush.Lokis THEN todo[x] \cup {<<"changed", r>>} ELSE todo[x]]
    BY DEF Loki!Told
  <2>3. \A x \in Loki!Actors : todo[x] \cup {<<"changed", r>>} \in SUBSET Loki!Events /\ todo[x] \in SUBSET Loki!Events
    BY <2>1 DEF LokiTypeOK
  <2>4. Loki!Told(lokiPush.Lokis, <<"changed", r>>) \in [Loki!Actors -> SUBSET Loki!Events]
    BY <2>2, <2>3
  <2>5. QED BY <2>4 DEF LokiTypeOK
<1>8. \A x \in Loki!Actors :
        q[x] = IF rules' # rules /\ x \in lokiPush.Lokis THEN todo[x] \cup {<<"changed", r>>} ELSE todo[x]
  BY DEF Loki!Told
<1> HIDE DEF q
<1>9. /\ \A x \in Loki!Actors \ {r} : todo'[x] = q[x]
      /\ todo'[r] = q[r] \ {e}
      /\ todo' \in [Loki!Actors -> SUBSET Loki!Events]
  <2>1. r \in Loki!Actors /\ q[r] \ {e} \in SUBSET Loki!Events BY <1>6, <1>7
  <2>2. todo' \in [Loki!Actors -> SUBSET Loki!Events] BY <1>5, <1>7, <2>1
  <2>3. \A x \in Loki!Actors \ {r} : todo'[x] = q[x] BY <1>5, <1>7
  <2>4. todo'[r] = q[r] \ {e} BY <1>5, <1>7, <2>1
  <2>5. QED BY <2>2, <2>3, <2>4
<1>10. todo'[r] = todo[r] \ {e} BY <1>6, <1>8, <1>9
<1>11. \A p \in Loki!Relations \ {r} : todo'[p] = todo[p]
  <2>1. TAKE p \in Loki!Relations \ {r}
  <2>2. p \in Loki!Actors \ {r} /\ p \notin lokiPush.Lokis BY <1>6 DEF Loki!Actors
  <2>3. QED BY <1>8, <1>9, <2>2
<1>12. \A l \in lokiPush.Lokis :
         todo'[l] = IF rules' # rules THEN todo[l] \cup {<<"changed", r>>} ELSE todo[l]
  BY <1>6, <1>8, <1>9
<1>13. QED BY <1>1, <1>2, <1>4, <1>9, <1>10, <1>11, <1>12

LEMMA ClientStep ==
    ASSUME Loki!ConstantsOK, LokiInv, NEW r \in Loki!Relations, NEW e, Loki!HandleClient(r, e)
    PROVE  LokiInv'
<1>1. LokiTypeOK /\ TodoInv /\ RulesInv /\ FilesInv /\ EndpointInv /\ ReportInv
  BY DEF LokiInv
<1>2. /\ UNCHANGED <<leader, url, files, related, disk, endpoint, event, used>>
      /\ e \in todo[r] /\ e \in ClientEvents /\ r \in related
      /\ e = <<"changed", Loki!None>> =>
           rules' = rules /\ told' = told \cup ({r} \cap event)
      /\ e # <<"changed", Loki!None>> =>
           rules' = [rules EXCEPT ![r] = Loki!AlertRules(disk[r], r)] /\ told' = told
      /\ todo'[r] = todo[r] \ {e} /\ \A q \in Loki!Relations \ {r} : todo'[q] = todo[q]
      /\ \A l \in lokiPush.Lokis :
           todo'[l] = IF rules' # rules THEN todo[l] \cup {<<"changed", r>>} ELSE todo[l]
      /\ todo' \in [Loki!Actors -> SUBSET Loki!Events]
  BY <1>1, ClientEffect
<1>3. Loki!AlertRules(disk[r], r) \in RuleSets /\ Loki!AlertRules(disk[r], r) # Loki!NoRules
  BY <1>1, RulesTypes
<1>4. /\ rules' \in [Loki!Relations -> RuleSets]
      /\ \A q \in Loki!Relations \ {r} : rules'[q] = rules[q]
      /\ rules'[r] = rules[r] \/ rules'[r] = Loki!AlertRules(disk[r], r)
      /\ e # <<"changed", Loki!None>> => rules'[r] = Loki!AlertRules(disk[r], r)
  BY <1>1, <1>2, <1>3 DEF LokiTypeOK
<1>5. LokiTypeOK' BY <1>1, <1>2, <1>4 DEF LokiTypeOK
<1>6. TodoInv'
  <2>1. <<"changed", r>> \in LokiEvents BY EventKinds
  <2>2. \A l \in lokiPush.Lokis : todo'[l] \subseteq LokiEvents BY <1>1, <1>2, <2>1 DEF TodoInv
  <2>3. \A q \in Loki!Relations : todo'[q] \subseteq todo[q] BY <1>2
  <2>4. QED BY <1>1, <1>2, <2>2, <2>3 DEF TodoInv
<1>7. \A q \in Loki!Relations : Loki!HasRules(q) => Loki!HasRules(q)'
  BY <1>3, <1>4 DEF Loki!HasRules
<1>8. RulesInv'
  <2>1. ASSUME NEW q \in Loki!Relations \ {r}
        PROVE  IF q \notin related THEN rules'[q] = Loki!NoRules
               ELSE rules'[q] = Loki!AlertRules(disk[q], q)
                      \/ {<<"joined", Loki!None>>, <<"upgrade", Loki!None>>} \cap todo'[q] # {}
    BY <1>1, <1>2, <1>4 DEF RulesInv
  <2>2. rules'[r] = Loki!AlertRules(disk[r], r)
          \/ {<<"joined", Loki!None>>, <<"upgrade", Loki!None>>} \cap todo'[r] # {}
    <3>1. CASE e # <<"changed", Loki!None>> BY <1>4, <3>1
    <3>2. CASE e = <<"changed", Loki!None>>
      <4>1. rules[r] = Loki!AlertRules(disk[r], r) \/ <<"joined", Loki!None>> \in todo[r]
              \/ <<"upgrade", Loki!None>> \in todo[r]
        BY <1>1, <1>2 DEF RulesInv
      <4>2. QED BY <1>2, <3>2, <4>1
    <3>3. QED BY <3>1, <3>2
  <2>3. QED BY <1>2, <2>1, <2>2 DEF RulesInv
<1>9. FilesInv'
  <2>1. CASE rules' = rules
    <3>1. Loki!Alerts' = Loki!Alerts /\ \A q : Loki!HasRules(q)' = Loki!HasRules(q)
      BY <1>2, <2>1, AlertsKept
    <3>2. \A l \in lokiPush.Lokis : todo'[l] = todo[l] BY <1>2, <2>1
    <3>3. \A l \in lokiPush.Lokis : Refreshed(l)' = Refreshed(l) BY <1>2, <3>1, <3>2 DEF Refreshed
    <3>4. QED BY <1>1, <1>2, <3>1, <3>3 DEF FilesInv
  <2>2. CASE rules' # rules
    <3>1. Loki!HasRules(r)' BY <1>2, <1>3, <1>4, <2>2 DEF Loki!HasRules
    <3>2. \A l \in lokiPush.Lokis : <<"changed", r>> \in todo'[l] BY <1>2, <2>2
    <3>3. QED BY <1>2, <3>1, <3>2 DEF FilesInv, Refreshed
  <2>3. QED BY <2>1, <2>2
<1>10. EndpointInv'
  <2>1. SUFFICES ASSUME used["break"] = 0, NEW l \in lokiPush.Lokis, NEW q \in related
                 PROVE  \/ endpoint[q][l] = url[l]
                        \/ {<<"changed", q>>, <<"upgrade", Loki!None>>} \cap todo'[l] # {}
                        \/ \E p \in related : Loki!IsBefore(p, q) /\ Loki!HasRules(p)'
    BY <1>2 DEF EndpointInv
  <2>2. \/ endpoint[q][l] = url[l]
        \/ {<<"changed", q>>, <<"upgrade", Loki!None>>} \cap todo[l] # {}
        \/ \E p \in related : Loki!IsBefore(p, q) /\ Loki!HasRules(p)
    BY <1>1, <2>1 DEF EndpointInv
  <2>3. todo[l] \subseteq todo'[l] /\ related \subseteq Loki!Relations BY <1>1, <1>2 DEF LokiTypeOK
  <2>4. QED BY <1>7, <2>2, <2>3
<1>11. ReportInv'
  <2>1. leader \in lokiPush.Lokis /\ event \subseteq Loki!Relations BY <1>1 DEF LokiTypeOK
  <2>2. ASSUME used["leader"] = 0, NEW q \in Loki!Invalid'
        PROVE  q \in event \/ <<"changed", q>> \in todo'[leader]
    <3>1. q \in related BY <1>2 DEF Loki!Invalid
    <3>2. CASE q = r /\ rules' # rules BY <1>2, <2>1, <3>2
    <3>3. CASE q # r \/ rules' = rules
      <4>1. rules'[q] = rules[q] BY <1>1, <1>4, <3>1, <3>3 DEF LokiTypeOK
      <4>2. q \in Loki!Invalid BY <1>2, <4>1 DEF Loki!Invalid, Loki!HasRules
      <4>3. q \in event \/ <<"changed", q>> \in todo[leader] BY <1>1, <2>2, <4>2 DEF ReportInv
      <4>4. QED BY <1>2, <2>1, <4>3
    <3>4. QED BY <3>2, <3>3
  <2>3. ASSUME NEW q \in event PROVE q \in told' \/ <<"changed", Loki!None>> \in todo'[q]
    <3>1. q \in told \/ <<"changed", Loki!None>> \in todo[q] BY <1>1 DEF ReportInv
    <3>2. told \subseteq told' BY <1>2
    <3>3. CASE q # r BY <1>2, <2>1, <3>1, <3>2, <3>3
    <3>4. CASE q = r BY <1>2, <3>1, <3>2, <3>4
    <3>5. QED BY <3>3, <3>4
  <2>4. QED BY <1>2, <2>2, <2>3 DEF ReportInv
<1>12. QED BY <1>5, <1>6, <1>8, <1>9, <1>10, <1>11 DEF LokiInv

-----------------------------------------------------------------------------
(* The environment *)

LEMMA RelateStep ==
    ASSUME Loki!ConstantsOK, LokiInv, NEW r \in Loki!Relations, Loki!Relate(r)
    PROVE  LokiInv'
<1>1. LokiTypeOK /\ TodoInv /\ RulesInv /\ FilesInv /\ EndpointInv /\ ReportInv
  BY DEF LokiInv
<1>2. /\ UNCHANGED <<leader, url, files, disk, told, endpoint, rules, event>>
      /\ Loki!Spend("relate") /\ r \notin related /\ related' = related \cup {r}
      /\ todo' = [x \in Loki!Actors |-> todo[x] \cup
                  IF x \in lokiPush.Lokis THEN {<<"joined", r>>, <<"changed", r>>}
                  ELSE IF x = r THEN {<<"joined", Loki!None>>} ELSE {}]
  BY DEF Loki!Relate, Loki!loki, Loki!client, Loki!data
<1>3. used' \in [Loki!EnvSteps -> Nat] /\ \A j \in Loki!EnvSteps : used'[j] = 0 => used[j] = 0
  BY <1>1, <1>2, SpendCounts DEF Loki!EnvSteps
<1>4. lokiPush.Lokis \cap Loki!Relations = {} BY DEF Loki!ConstantsOK
<1>5. /\ \A l \in lokiPush.Lokis : todo'[l] = todo[l] \cup {<<"joined", r>>, <<"changed", r>>}
      /\ todo'[r] = todo[r] \cup {<<"joined", Loki!None>>}
      /\ \A q \in Loki!Relations \ {r} : todo'[q] = todo[q]
  BY <1>2, <1>4 DEF Loki!Actors
<1>6. LokiTypeOK'
  <2>1. ASSUME NEW x \in Loki!Actors PROVE todo'[x] \subseteq Loki!Events
    <3>1. /\ <<"joined", r>> \in Loki!Events /\ <<"changed", r>> \in Loki!Events
          /\ <<"joined", Loki!None>> \in Loki!Events
      BY EventKinds
    <3>2. todo[x] \subseteq Loki!Events BY <1>1 DEF LokiTypeOK
    <3>3. QED BY <1>2, <3>1, <3>2
  <2>2. todo' \in [Loki!Actors -> SUBSET Loki!Events] BY <1>2, <2>1
  <2>3. related' \subseteq Loki!Relations /\ event' \subseteq related' BY <1>1, <1>2 DEF LokiTypeOK
  <2>4. QED BY <1>1, <1>2, <1>3, <2>2, <2>3 DEF LokiTypeOK
<1>7. TodoInv'
  <2>1. \A l \in lokiPush.Lokis : todo'[l] \subseteq LokiEvents
    <3>1. <<"joined", r>> \in LokiEvents /\ <<"changed", r>> \in LokiEvents BY EventKinds
    <3>2. QED BY <1>1, <1>5, <3>1 DEF TodoInv
  <2>2. todo'[r] \subseteq ClientEvents
    <3>1. <<"joined", Loki!None>> \in ClientEvents BY EventKinds
    <3>2. QED BY <1>1, <1>5, <3>1 DEF TodoInv
  <2>3. QED BY <1>1, <1>2, <1>5, <2>1, <2>2 DEF TodoInv
<1>8. rules[r] = Loki!NoRules BY <1>1, <1>2 DEF RulesInv
<1>9. RulesInv' BY <1>1, <1>2, <1>5 DEF RulesInv
<1>10. Loki!Invalid' = Loki!Invalid /\ Loki!Alerts' = Loki!Alerts
  <2>1. ~Loki!HasRules(r) /\ \A q : Loki!HasRules(q)' = Loki!HasRules(q)
    BY <1>2, <1>8 DEF Loki!HasRules
  <2>2. Loki!Invalid' = Loki!Invalid BY <1>2, <2>1 DEF Loki!Invalid
  <2>3. {q \in related' : Loki!HasRules(q)' /\ rules[q] # <<>> /\ (q \in lokiPush.Labelled => q \notin Loki!Invalid)}
          = {q \in related : Loki!HasRules(q) /\ rules[q] # <<>> /\ (q \in lokiPush.Labelled => q \notin Loki!Invalid)}
    BY <1>2, <2>1
  <2>4. QED BY <1>2, <2>2, <2>3 DEF Loki!Alerts
<1>11. FilesInv'
  <2>1. \A l \in lokiPush.Lokis : Refreshed(l) => Refreshed(l)'
    BY <1>2, <1>5 DEF Refreshed, Loki!HasRules
  <2>2. QED BY <1>1, <1>2, <1>10, <2>1 DEF FilesInv
<1>12. EndpointInv'
  <2>1. SUFFICES ASSUME used["break"] = 0, NEW l \in lokiPush.Lokis, NEW q \in related'
                 PROVE  \/ endpoint[q][l] = url[l]
                        \/ {<<"changed", q>>, <<"upgrade", Loki!None>>} \cap todo'[l] # {}
                        \/ \E p \in related' : Loki!IsBefore(p, q) /\ Loki!HasRules(p)
    BY <1>2, <1>3 DEF EndpointInv, Loki!EnvSteps, Loki!HasRules
  <2>2. CASE q = r BY <1>5, <2>2
  <2>3. CASE q \in related
    <3>1. \/ endpoint[q][l] = url[l]
          \/ {<<"changed", q>>, <<"upgrade", Loki!None>>} \cap todo[l] # {}
          \/ \E p \in related : Loki!IsBefore(p, q) /\ Loki!HasRules(p)
      BY <1>1, <2>1, <2>3 DEF EndpointInv
    <3>2. QED BY <1>2, <1>5, <3>1
  <2>4. QED BY <1>2, <2>2, <2>3
<1>13. ReportInv'
  <2>1. leader \in lokiPush.Lokis /\ event \subseteq Loki!Relations BY <1>1 DEF LokiTypeOK
  <2>2. used'["leader"] = 0 => used["leader"] = 0 BY <1>3 DEF Loki!EnvSteps
  <2>3. todo[leader] \subseteq todo'[leader] /\ \A q \in event : todo[q] \subseteq todo'[q]
    BY <1>5, <2>1
  <2>4. QED BY <1>1, <1>2, <1>10, <2>2, <2>3 DEF ReportInv
<1>14. QED BY <1>6, <1>7, <1>9, <1>11, <1>12, <1>13 DEF LokiInv

LEMMA BreakStep ==
    ASSUME Loki!ConstantsOK, LokiInv, NEW r \in Loki!Relations, Loki!Break(r)
    PROVE  LokiInv'
<1>1. LokiTypeOK /\ TodoInv /\ RulesInv /\ FilesInv /\ EndpointInv /\ ReportInv
  BY DEF LokiInv
<1>2. /\ UNCHANGED <<leader, url, files, disk>>
      /\ Loki!Spend("break") /\ r \in related /\ related' = related \ {r}
      /\ rules' = [rules EXCEPT ![r] = Loki!NoRules]
      /\ endpoint' = [endpoint EXCEPT ![r] = [l \in lokiPush.Lokis |-> Loki!None]]
      /\ event' = event \ {r} /\ told' = told \ {r}
      /\ todo' = [x \in Loki!Actors |->
                  IF x = r THEN {}
                  ELSE IF x \in lokiPush.Lokis THEN (todo[x] \ {<<"joined", r>>, <<"changed", r>>}) \cup {<<"broken", r>>}
                  ELSE todo[x]]
  BY DEF Loki!Break, Loki!loki
<1>3. /\ used' \in [Loki!EnvSteps -> Nat] /\ \A j \in Loki!EnvSteps : used'[j] = 0 => used[j] = 0
      /\ used'["break"] # 0
  BY <1>1, <1>2, SpendCounts DEF Loki!EnvSteps
<1>4. lokiPush.Lokis \cap Loki!Relations = {} BY DEF Loki!ConstantsOK
<1>5. /\ \A l \in lokiPush.Lokis : todo'[l] = (todo[l] \ {<<"joined", r>>, <<"changed", r>>}) \cup {<<"broken", r>>}
      /\ todo'[r] = {}
      /\ \A q \in Loki!Relations \ {r} : todo'[q] = todo[q]
  BY <1>2, <1>4 DEF Loki!Actors
<1>6. /\ rules' \in [Loki!Relations -> RuleSets] /\ rules'[r] = Loki!NoRules
      /\ \A q \in Loki!Relations \ {r} : rules'[q] = rules[q]
  BY <1>1, <1>2 DEF LokiTypeOK, RuleSets
<1>7. LokiTypeOK'
  <2>1. ASSUME NEW x \in Loki!Actors PROVE todo'[x] \subseteq Loki!Events
    <3>1. <<"broken", r>> \in Loki!Events BY EventKinds
    <3>2. todo[x] \subseteq Loki!Events BY <1>1 DEF LokiTypeOK
    <3>3. QED BY <1>2, <3>1, <3>2
  <2>2. todo' \in [Loki!Actors -> SUBSET Loki!Events] BY <1>2, <2>1
  <2>3. related' \subseteq Loki!Relations /\ event' \subseteq related' BY <1>1, <1>2 DEF LokiTypeOK
  <2>4. endpoint' \in [Loki!Relations -> [lokiPush.Lokis -> lokiPush.Urls \cup {Loki!None}]]
    BY <1>1, <1>2 DEF LokiTypeOK
  <2>5. QED BY <1>1, <1>2, <1>3, <1>6, <2>2, <2>3, <2>4 DEF LokiTypeOK
<1>8. TodoInv'
  <2>1. \A l \in lokiPush.Lokis : todo'[l] \subseteq LokiEvents
    <3>1. <<"broken", r>> \in LokiEvents BY EventKinds
    <3>2. QED BY <1>1, <1>5, <3>1 DEF TodoInv
  <2>2. QED BY <1>1, <1>2, <1>5, <2>1 DEF TodoInv
<1>9. RulesInv' BY <1>1, <1>2, <1>5, <1>6 DEF RulesInv
<1>10. FilesInv' BY <1>5 DEF FilesInv, Refreshed
<1>11. EndpointInv' BY <1>3 DEF EndpointInv
<1>12. ReportInv'
  <2>1. leader \in lokiPush.Lokis /\ event \subseteq Loki!Relations /\ related \subseteq Loki!Relations
    BY <1>1 DEF LokiTypeOK
  <2>2. used'["leader"] = 0 => used["leader"] = 0 BY <1>3 DEF Loki!EnvSteps
  <2>3. ASSUME used["leader"] = 0, NEW q \in Loki!Invalid'
        PROVE  q \in event' \/ <<"changed", q>> \in todo'[leader]
    <3>1. q \in related /\ q # r BY <1>2 DEF Loki!Invalid
    <3>2. rules'[q] = rules[q] BY <1>6, <2>1, <3>1
    <3>3. q \in Loki!Invalid BY <3>1, <3>2 DEF Loki!Invalid, Loki!HasRules
    <3>4. q \in event \/ <<"changed", q>> \in todo[leader] BY <1>1, <2>3, <3>3 DEF ReportInv
    <3>5. <<"changed", q>> \notin {<<"joined", r>>, <<"changed", r>>} BY <3>1, EventsDiffer
    <3>6. QED BY <1>2, <1>5, <2>1, <3>1, <3>4, <3>5
  <2>4. ASSUME NEW q \in event' PROVE q \in told' \/ <<"changed", Loki!None>> \in todo'[q]
    BY <1>1, <1>2, <1>5, <2>1 DEF ReportInv
  <2>5. QED BY <1>2, <2>2, <2>3, <2>4 DEF ReportInv
<1>13. QED BY <1>7, <1>8, <1>9, <1>10, <1>11, <1>12 DEF LokiInv

\* A step that changes neither relations nor what is published, and only adds
\* events: a replaced unit is to be upgraded, and an upgraded client.
LEMMA SpendStep ==
    ASSUME LokiInv, UNCHANGED <<related, rules, event, told, files, endpoint>>,
           LokiTypeOK', TodoInv',
           \A j \in Loki!EnvSteps : used'[j] = 0 => used[j] = 0,
           \A x \in Loki!Actors : todo[x] \subseteq todo'[x],
           \A l \in lokiPush.Lokis : url'[l] = url[l] \/ <<"upgrade", Loki!None>> \in todo'[l],
           \A r \in related : disk'[r] = disk[r] \/ <<"upgrade", Loki!None>> \in todo'[r],
           used'["leader"] # 0 \/ leader' = leader
    PROVE  LokiInv'
<1>1. LokiTypeOK /\ TodoInv /\ RulesInv /\ FilesInv /\ EndpointInv /\ ReportInv
  BY DEF LokiInv
<1>2. Loki!Alerts' = Loki!Alerts /\ Loki!Invalid' = Loki!Invalid /\ \A r : Loki!HasRules(r)' = Loki!HasRules(r)
  BY AlertsKept
<1>3. /\ \A l \in lokiPush.Lokis : todo[l] \subseteq todo'[l]
      /\ \A r \in Loki!Relations : todo[r] \subseteq todo'[r]
      /\ leader \in lokiPush.Lokis /\ event \subseteq Loki!Relations /\ related \subseteq Loki!Relations
  BY <1>1 DEF Loki!Actors, LokiTypeOK
<1>4. RulesInv'
  <2>1. SUFFICES ASSUME NEW r \in Loki!Relations
                 PROVE  IF r \notin related THEN rules[r] = Loki!NoRules
                        ELSE rules[r] = Loki!AlertRules(disk'[r], r)
                               \/ {<<"joined", Loki!None>>, <<"upgrade", Loki!None>>} \cap todo'[r] # {}
    BY DEF RulesInv
  <2>2. IF r \notin related THEN rules[r] = Loki!NoRules
        ELSE rules[r] = Loki!AlertRules(disk[r], r)
               \/ {<<"joined", Loki!None>>, <<"upgrade", Loki!None>>} \cap todo[r] # {}
    BY <1>1 DEF RulesInv
  <2>3. QED BY <1>3, <2>2
<1>5. FilesInv'
  <2>1. \A l \in lokiPush.Lokis : Refreshed(l) => Refreshed(l)'
    BY <1>2, <1>3 DEF Refreshed
  <2>2. QED BY <1>1, <1>2, <2>1 DEF FilesInv
<1>6. EndpointInv'
  <2>1. SUFFICES ASSUME used["break"] = 0, NEW l \in lokiPush.Lokis, NEW q \in related
                 PROVE  \/ endpoint[q][l] = url'[l]
                        \/ {<<"changed", q>>, <<"upgrade", Loki!None>>} \cap todo'[l] # {}
                        \/ \E p \in related : Loki!IsBefore(p, q) /\ Loki!HasRules(p)
    BY <1>2 DEF EndpointInv, Loki!EnvSteps
  <2>2. \/ endpoint[q][l] = url[l]
        \/ {<<"changed", q>>, <<"upgrade", Loki!None>>} \cap todo[l] # {}
        \/ \E p \in related : Loki!IsBefore(p, q) /\ Loki!HasRules(p)
    BY <1>1, <2>1 DEF EndpointInv
  <2>3. QED BY <1>3, <2>2
<1>7. ReportInv'
  <2>1. used'["leader"] = 0 => used["leader"] = 0 BY DEF Loki!EnvSteps
  <2>2. QED BY <1>1, <1>2, <1>3, <2>1 DEF ReportInv
<1>8. QED BY <1>4, <1>5, <1>6, <1>7 DEF LokiInv

LEMMA DepartStep ==
    ASSUME Loki!ConstantsOK, LokiInv, NEW r \in Loki!Relations, Loki!Depart(r)
    PROVE  LokiInv'
<1>1. LokiTypeOK /\ TodoInv BY DEF LokiInv
<1>2. /\ UNCHANGED <<leader, url, related, rules, event, told, files, disk, endpoint>>
      /\ Loki!Spend("depart") /\ todo' = Loki!Told(lokiPush.Lokis, <<"departed", r>>)
  BY DEF Loki!Depart, Loki!loki, Loki!client, Loki!data
<1>3. used' \in [Loki!EnvSteps -> Nat] /\ \A j \in Loki!EnvSteps : used'[j] = 0 => used[j] = 0
  BY <1>1, <1>2, SpendCounts DEF Loki!EnvSteps
<1>4. <<"departed", r>> \in LokiEvents /\ <<"departed", r>> \in Loki!Events BY EventKinds
<1>5. /\ todo' = [x \in Loki!Actors |->
                    IF x \in lokiPush.Lokis THEN todo[x] \cup {<<"departed", r>>} ELSE todo[x]]
      /\ todo' \in [Loki!Actors -> SUBSET Loki!Events]
      /\ \A x \in Loki!Actors : todo[x] \subseteq todo'[x]
  <2>1. todo' = [x \in Loki!Actors |->
                  IF x \in lokiPush.Lokis THEN todo[x] \cup {<<"departed", r>>} ELSE todo[x]]
    BY <1>2 DEF Loki!Told
  <2>2. \A x \in Loki!Actors :
          todo[x] \cup {<<"departed", r>>} \in SUBSET Loki!Events /\ todo[x] \in SUBSET Loki!Events
    BY <1>1, <1>4 DEF LokiTypeOK
  <2>3. QED BY <2>1, <2>2
<1>6. LokiTypeOK' BY <1>1, <1>2, <1>3, <1>5 DEF LokiTypeOK
<1>7. TodoInv'
  <2>1. /\ \A l \in lokiPush.Lokis : todo'[l] = todo[l] \cup {<<"departed", r>>}
        /\ \A q \in Loki!Relations : todo'[q] = todo[q]
    BY <1>5 DEF Loki!Actors, Loki!ConstantsOK
  <2>2. QED BY <1>1, <1>2, <1>4, <2>1 DEF TodoInv
<1>8. QED BY <1>2, <1>3, <1>5, <1>6, <1>7, SpendStep

LEMMA ReplaceStep ==
    ASSUME Loki!ConstantsOK, LokiInv, NEW l \in lokiPush.Lokis,
           NEW a \in lokiPush.Urls, Loki!Replace(l, a)
    PROVE  LokiInv'
<1>1. LokiTypeOK /\ TodoInv BY DEF LokiInv
<1>2. /\ UNCHANGED <<leader, related, rules, event, told, files, disk, endpoint>>
      /\ Loki!Spend("replace") /\ url' = [url EXCEPT ![l] = a]
      /\ todo' = Loki!Told({l}, <<"upgrade", Loki!None>>)
  BY DEF Loki!Replace, Loki!client, Loki!data
<1>3. used' \in [Loki!EnvSteps -> Nat] /\ \A j \in Loki!EnvSteps : used'[j] = 0 => used[j] = 0
  BY <1>1, <1>2, SpendCounts DEF Loki!EnvSteps
<1>4. /\ todo' = [x \in Loki!Actors |-> IF x \in {l} THEN todo[x] \cup {<<"upgrade", Loki!None>>} ELSE todo[x]]
      /\ l \in Loki!Actors /\ l \notin Loki!Relations
  BY <1>2 DEF Loki!Told, Loki!Actors, Loki!ConstantsOK
<1>5. /\ todo'[l] = todo[l] \cup {<<"upgrade", Loki!None>>}
      /\ \A x \in Loki!Actors \ {l} : todo'[x] = todo[x]
  BY <1>4
<1>6. LokiTypeOK'
  <2>1. <<"upgrade", Loki!None>> \in Loki!Events BY EventKinds
  <2>2. todo' \in [Loki!Actors -> SUBSET Loki!Events] BY <1>1, <1>4, <2>1 DEF LokiTypeOK
  <2>3. url' \in [lokiPush.Lokis -> lokiPush.Urls] BY <1>1, <1>2 DEF LokiTypeOK
  <2>4. QED BY <1>1, <1>2, <1>3, <2>2, <2>3 DEF LokiTypeOK
<1>7. TodoInv'
  <2>1. <<"upgrade", Loki!None>> \in LokiEvents BY EventKinds
  <2>2. \A k \in lokiPush.Lokis : todo'[k] \subseteq LokiEvents
    BY <1>1, <1>5, <2>1 DEF TodoInv, Loki!Actors
  <2>3. \A r \in Loki!Relations : todo'[r] = todo[r] BY <1>4, <1>5 DEF Loki!Actors
  <2>4. QED BY <1>1, <1>2, <2>2, <2>3 DEF TodoInv
<1>8. \A k \in lokiPush.Lokis : url'[k] = url[k] \/ <<"upgrade", Loki!None>> \in todo'[k]
  BY <1>1, <1>2, <1>5 DEF LokiTypeOK
<1>9. \A x \in Loki!Actors : todo[x] \subseteq todo'[x] BY <1>5
<1>10. QED BY <1>2, <1>3, <1>6, <1>7, <1>8, <1>9, SpendStep

LEMMA UpgradeClientStep ==
    ASSUME Loki!ConstantsOK, LokiInv, NEW r \in Loki!Relations,
           NEW d \in lokiPush.Disks, Loki!UpgradeClient(r, d)
    PROVE  LokiInv'
<1>1. LokiTypeOK /\ TodoInv BY DEF LokiInv
<1>2. /\ UNCHANGED <<leader, url, related, rules, event, told, files, endpoint>>
      /\ Loki!Spend("upgrade") /\ disk' = [disk EXCEPT ![r] = d]
      /\ todo' = IF r \in related THEN Loki!Told({r}, <<"upgrade", Loki!None>>) ELSE todo
  BY DEF Loki!UpgradeClient, Loki!loki, Loki!data
<1>3. used' \in [Loki!EnvSteps -> Nat] /\ \A j \in Loki!EnvSteps : used'[j] = 0 => used[j] = 0
  BY <1>1, <1>2, SpendCounts DEF Loki!EnvSteps
<1>4. r \in Loki!Actors /\ r \notin lokiPush.Lokis BY DEF Loki!Actors, Loki!ConstantsOK
<1>5. \A x \in Loki!Actors : todo'[x] =
        IF x = r /\ r \in related THEN todo[x] \cup {<<"upgrade", Loki!None>>} ELSE todo[x]
  BY <1>2 DEF Loki!Told
<1>6. LokiTypeOK'
  <2>1. <<"upgrade", Loki!None>> \in Loki!Events BY EventKinds
  <2>2. Loki!Told({r}, <<"upgrade", Loki!None>>) \in [Loki!Actors -> SUBSET Loki!Events]
    BY <1>1, <2>1 DEF LokiTypeOK, Loki!Told
  <2>3. todo' \in [Loki!Actors -> SUBSET Loki!Events] BY <1>1, <1>2, <2>2 DEF LokiTypeOK
  <2>4. disk' \in [Loki!Relations -> lokiPush.Disks] BY <1>1, <1>2 DEF LokiTypeOK
  <2>5. QED BY <1>1, <1>2, <1>3, <2>3, <2>4 DEF LokiTypeOK
<1>7. TodoInv'
  <2>1. <<"upgrade", Loki!None>> \in ClientEvents BY EventKinds
  <2>2. \A l \in lokiPush.Lokis : todo'[l] = todo[l] BY <1>4, <1>5 DEF Loki!Actors
  <2>3. \A q \in Loki!Relations :
          todo'[q] = IF q = r /\ r \in related THEN todo[q] \cup {<<"upgrade", Loki!None>>} ELSE todo[q]
    BY <1>5 DEF Loki!Actors
  <2>4. QED BY <1>1, <1>2, <2>1, <2>2, <2>3 DEF TodoInv
<1>8. \A q \in related : disk'[q] = disk[q] \/ <<"upgrade", Loki!None>> \in todo'[q]
  BY <1>1, <1>2, <1>4, <1>5 DEF LokiTypeOK
<1>9. \A x \in Loki!Actors : todo[x] \subseteq todo'[x] BY <1>5
<1>10. QED BY <1>2, <1>3, <1>6, <1>7, <1>8, <1>9, SpendStep

LEMMA LeaderMovesStep ==
    ASSUME LokiInv, NEW l \in lokiPush.Lokis, Loki!LeaderMoves(l)
    PROVE  LokiInv'
<1>1. LokiTypeOK /\ TodoInv BY DEF LokiInv
<1>2. /\ UNCHANGED <<url, related, rules, event, told, files, disk, endpoint, todo>>
      /\ Loki!Spend("leader") /\ leader' = l
  BY DEF Loki!LeaderMoves, Loki!client, Loki!data
<1>3. /\ used' \in [Loki!EnvSteps -> Nat] /\ \A j \in Loki!EnvSteps : used'[j] = 0 => used[j] = 0
      /\ used'["leader"] # 0
  BY <1>1, <1>2, SpendCounts DEF Loki!EnvSteps
<1>4. LokiTypeOK' BY <1>1, <1>2, <1>3 DEF LokiTypeOK
<1>5. TodoInv' BY <1>1, <1>2 DEF TodoInv
<1>6. QED BY <1>2, <1>3, <1>4, <1>5, SpendStep

-----------------------------------------------------------------------------
LEMMA InvNext ==
    ASSUME Loki!ConstantsOK, LokiInv, [Loki!Next]_(Loki!vars)
    PROVE  LokiInv'
<1>1. CASE UNCHANGED Loki!vars
  <2>1. UNCHANGED <<leader, url, related, disk, endpoint, rules, event, told, files, todo, used>>
    BY <1>1 DEF Loki!vars, Loki!loki, Loki!client, Loki!data
  <2>2. LokiTypeOK' /\ TodoInv' BY <2>1 DEF LokiInv, LokiTypeOK, TodoInv
  <2>3. QED BY <2>1, <2>2, SpendStep
<1>2. CASE Loki!Next
  <2>1. ASSUME NEW l \in lokiPush.Lokis, NEW e \in Loki!Events, Loki!Handle(l, e) PROVE LokiInv'
    BY <2>1, HandleStep
  <2>2. ASSUME NEW l \in lokiPush.Lokis, NEW a \in lokiPush.Urls, Loki!Replace(l, a) PROVE LokiInv'
    BY <2>2, ReplaceStep
  <2>3. ASSUME NEW l \in lokiPush.Lokis, Loki!LeaderMoves(l) PROVE LokiInv'
    BY <2>3, LeaderMovesStep
  <2>4. ASSUME NEW r \in Loki!Relations, NEW e \in Loki!Events, Loki!HandleClient(r, e)
        PROVE LokiInv'
    BY <2>4, ClientStep
  <2>5. ASSUME NEW r \in Loki!Relations, NEW d \in lokiPush.Disks, Loki!UpgradeClient(r, d)
        PROVE LokiInv'
    BY <2>5, UpgradeClientStep
  <2>6. ASSUME NEW r \in Loki!Relations, Loki!Relate(r) PROVE LokiInv'
    BY <2>6, RelateStep
  <2>7. ASSUME NEW r \in Loki!Relations, Loki!Break(r) PROVE LokiInv'
    BY <2>7, BreakStep
  <2>8. ASSUME NEW r \in Loki!Relations, Loki!Depart(r) PROVE LokiInv'
    BY <2>8, DepartStep
  <2>9. QED BY <1>2, <2>1, <2>2, <2>3, <2>4, <2>5, <2>6, <2>7, <2>8 DEF Loki!Next
<1>3. QED BY <1>1, <1>2

LEMMA InvStart ==
    ASSUME Loki!ConstantsOK, Loki!Init
    PROVE  LokiInv
<1>1. /\ related = {} /\ rules = [r \in Loki!Relations |-> Loki!NoRules] /\ event = {}
      /\ files = [l \in lokiPush.Lokis |-> {}] /\ \A x \in Loki!Actors : todo[x] = {}
  BY DEF Loki!Init
<1>2. (CHOOSE l \in lokiPush.Lokis : TRUE) \in lokiPush.Lokis /\ (CHOOSE a \in lokiPush.Urls : TRUE) \in lokiPush.Urls
  BY DEF Loki!ConstantsOK
<1>3. LokiTypeOK
  <2>1. endpoint \in [Loki!Relations -> [lokiPush.Lokis -> lokiPush.Urls \cup {Loki!None}]]
    BY DEF Loki!Init
  <2>2. QED BY <1>1, <1>2, <2>1 DEF Loki!Init, LokiTypeOK, RuleSets
<1>4. TodoInv BY <1>1 DEF TodoInv, Loki!Actors
<1>5. RulesInv BY <1>1 DEF RulesInv
<1>6. Loki!Alerts = {} BY <1>1 DEF Loki!Alerts
<1>7. FilesInv BY <1>1, <1>6 DEF FilesInv
<1>8. EndpointInv BY <1>1 DEF EndpointInv
<1>9. ReportInv BY <1>1 DEF ReportInv, Loki!Invalid
<1>10. QED BY <1>3, <1>4, <1>5, <1>7, <1>8, <1>9 DEF LokiInv

\* With everything handled, what Loki takes is what the clients' disks hold.
LEMMA RulesFollow ==
    ASSUME Loki!ConstantsOK, LokiInv
    PROVE  Loki!RulesCurrent
<1>1. LokiTypeOK /\ RulesInv /\ FilesInv BY DEF LokiInv
<1>2. SUFFICES ASSUME NEW l \in lokiPush.Lokis, Loki!Quiet({l} \cup Loki!Relations)
               PROVE  files[l] = {<<r, Loki!AlertRules(disk[r], r)>> : r \in {q \in related :
                         Loki!AlertRules(disk[q], q) # <<>>
                           /\ (q \in lokiPush.Labelled => Loki!Valid(Loki!AlertRules(disk[q], q)))}}
  BY DEF Loki!RulesCurrent
<1>3. todo[l] = {} /\ \A r \in Loki!Relations : todo[r] = {} BY <1>2 DEF Loki!Quiet
<1>4. files[l] = Loki!Alerts BY <1>1, <1>3 DEF FilesInv, Refreshed
<1>5. ASSUME NEW r \in related
      PROVE  /\ rules[r] = Loki!AlertRules(disk[r], r) /\ Loki!HasRules(r)
             /\ r \in Loki!Invalid <=> ~Loki!Valid(Loki!AlertRules(disk[r], r))
  <2>1. r \in Loki!Relations BY <1>1 DEF LokiTypeOK
  <2>2. rules[r] = Loki!AlertRules(disk[r], r) BY <1>1, <1>3, <2>1 DEF RulesInv
  <2>3. Loki!HasRules(r) BY <1>1, <2>1, <2>2, RulesTypes DEF Loki!HasRules
  <2>4. QED BY <2>2, <2>3 DEF Loki!Invalid
<1>6. {q \in related : Loki!HasRules(q) /\ rules[q] # <<>> /\ (q \in lokiPush.Labelled => q \notin Loki!Invalid)}
        = {q \in related : Loki!AlertRules(disk[q], q) # <<>>
                             /\ (q \in lokiPush.Labelled => Loki!Valid(Loki!AlertRules(disk[q], q)))}
  BY <1>5
<1>7. Loki!Alerts = {<<r, Loki!AlertRules(disk[r], r)>> : r \in {q \in related :
                       Loki!AlertRules(disk[q], q) # <<>>
                         /\ (q \in lokiPush.Labelled => Loki!Valid(Loki!AlertRules(disk[q], q)))}}
  BY <1>5, <1>6 DEF Loki!Alerts
<1>8. QED BY <1>4, <1>7

\* Each Loki unit whose events, and the clients', are handled has the rules of
\* the clients' current revisions, of those that are valid, and no others:
\* whatever the order of relation, upgrade and leader events, and whichever
\* hooks failed over invalid rules.
THEOREM RulesStayCurrent == ASSUME Loki!ConstantsOK PROVE Loki!Spec => []Loki!RulesCurrent
<1>1. Loki!Init => LokiInv BY InvStart
<1>2. LokiInv /\ [Loki!Next]_(Loki!vars) => LokiInv' BY InvNext
<1>3. LokiInv => Loki!RulesCurrent BY RulesFollow
<1>4. QED BY <1>1, <1>2, <1>3, PTL DEF Loki!Spec

\* As long as no relation was removed, a unit's URL is in every relation that
\* no relation with alert rules comes before.
THEOREM EndpointsStayCurrent == ASSUME Loki!ConstantsOK PROVE Loki!Spec => []Loki!EndpointsCurrent
<1>1. Loki!Init => LokiInv BY InvStart
<1>2. LokiInv /\ [Loki!Next]_(Loki!vars) => LokiInv' BY InvNext
<1>3. LokiInv => Loki!EndpointsCurrent
  BY DEF LokiInv, EndpointInv, Loki!EndpointsCurrent, Loki!Quiet
<1>4. QED BY <1>1, <1>2, <1>3, PTL DEF Loki!Spec

\* While one unit of Loki leads, a client whose rules Loki cannot use has been
\* told, with its events and the leader's handled.
THEOREM ErrorsAreReported == ASSUME Loki!ConstantsOK PROVE Loki!Spec => []Loki!ErrorsReachClient
<1>1. Loki!Init => LokiInv BY InvStart
<1>2. LokiInv /\ [Loki!Next]_(Loki!vars) => LokiInv' BY InvNext
<1>3. LokiInv => Loki!ErrorsReachClient
  <2>1. SUFFICES ASSUME LokiInv, Loki!Quiet({leader} \cup Loki!Relations), used["leader"] = 0,
                        NEW r \in Loki!Invalid
                 PROVE  r \in told
    BY DEF Loki!ErrorsReachClient
  <2>2. todo[leader] = {} /\ r \in Loki!Relations
    BY <2>1 DEF Loki!Quiet, Loki!Invalid, LokiInv, LokiTypeOK
  <2>3. todo[r] = {} BY <2>1, <2>2 DEF Loki!Quiet
  <2>4. QED BY <2>1, <2>2, <2>3 DEF LokiInv, ReportInv
<1>4. QED BY <1>1, <1>2, <1>3, PTL DEF Loki!Spec

-----------------------------------------------------------------------------
(* LogProxy *)


Boxes == [layer : BOOLEAN, binary : BOOLEAN,
          config : SUBSET (promtail.Urls \cup {Promtail!None}),
             runs : SUBSET (promtail.Urls \cup {Promtail!None})]

PromtailTypeOK ==
    /\ related \subseteq Promtail!Relations /\ seen \subseteq Promtail!Relations
    /\ binaries \subseteq Promtail!Relations /\ errors \subseteq Promtail!Relations
    /\ url \in [Promtail!Relations -> promtail.Urls \cup {Promtail!None}]
    /\ up \subseteq Promtail!Containers /\ box \in [Promtail!Containers -> Boxes]
    /\ fetched \in BOOLEAN /\ network \in {"up", "down", "flaky"} /\ leads \in BOOLEAN
    /\ todo \subseteq Promtail!Events /\ stuck \in Promtail!Events \cup {Promtail!NoEvent}
    /\ used \in [Promtail!EnvSteps -> Nat]

\* What the unit sees once it runs the hook of e.
View(e) == CASE e[1] = "changed" -> seen \cup {e[2]}
             [] e[1] = "departed" -> seen \ {e[2]}
             [] OTHER -> seen

Told(k) == {r \in Promtail!Relations : <<k, r>> \in todo}

\* A hook either goes through all containers and is done, or raises, over what
\* Loki reports or in a container, and stays, with some containers dealt with.
LEMMA HookEnds ==
    ASSUME NEW e, Promtail!Handle(e)
    PROVE  /\ e \in todo /\ stuck \in {Promtail!NoEvent, e}
           /\ seen' = View(e)
           /\ UNCHANGED <<Promtail!lokis, up, Promtail!env, used>>
           /\ \/ /\ todo' = todo \ {e} /\ stuck' = Promtail!NoEvent
                 /\ \A c \in Promtail!Containers : /\ box'[c] = Promtail!Outcome(e, c, View(e)).box
                                                   /\ ~Promtail!Outcome(e, c, View(e)).raises
              \/ /\ todo' = todo /\ stuck' = e
                 /\ \/ Promtail!Rejected(e) /\ \A c \in Promtail!Containers : box'[c] = box[c]
                    \/ \E c \in Promtail!Containers : Promtail!Outcome(e, c, View(e)).raises
                 /\ \A c \in Promtail!Containers : box'[c] \in {box[c], Promtail!Outcome(e, c, View(e)).box}
<1> DEFINE failing == {i \in DOMAIN promtail.Scheme : Promtail!Outcome(e, promtail.Scheme[i], View(e)).raises}
           done == {promtail.Scheme[i] : i \in {j \in DOMAIN promtail.Scheme :
                          ~Promtail!Rejected(e) /\ \A k \in failing : j <= k}}
           ends == ~Promtail!Rejected(e) /\ failing = {}
<1>1. /\ e \in todo /\ stuck \in {Promtail!NoEvent, e}
      /\ seen' = View(e)
      /\ box' = [c \in Promtail!Containers |-> IF c \in done THEN Promtail!Outcome(e, c, View(e)).box ELSE box[c]]
      /\ stuck' = IF ends THEN Promtail!NoEvent ELSE e
      /\ todo' = IF ends THEN todo \ {e} ELSE todo
      /\ UNCHANGED <<Promtail!lokis, up, Promtail!env, used>>
  BY DEF Promtail!Handle, View
<1>2. Promtail!Containers = {promtail.Scheme[i] : i \in DOMAIN promtail.Scheme}
  BY DEF Promtail!Containers, Promtail!ToSet
<1>3. CASE ends
  <2>1. done = Promtail!Containers BY <1>2, <1>3
  <2>2. \A c \in Promtail!Containers : ~Promtail!Outcome(e, c, View(e)).raises BY <1>2, <1>3
  <2>3. QED BY <1>1, <1>3, <2>1, <2>2
<1>6. CASE Promtail!Rejected(e)
  <2>1. done = {} BY <1>6
  <2>2. QED BY <1>1, <1>6, <2>1
<1>4. CASE failing # {}
  <2>1. \E c \in Promtail!Containers : Promtail!Outcome(e, c, View(e)).raises BY <1>2, <1>4
  <2>2. QED BY <1>1, <1>4, <2>1
<1>5. QED BY <1>3, <1>4, <1>6

LEMMA OutcomeTyped ==
    ASSUME PromtailTypeOK, NEW e \in Promtail!Events, NEW c \in Promtail!Containers,
           NEW V \in SUBSET Promtail!Relations
    PROVE  Promtail!Outcome(e, c, V).box \in Boxes
<1>1. box[c] \in Boxes /\ Promtail!Clients(V) \in SUBSET (promtail.Urls \cup {Promtail!None})
  BY DEF PromtailTypeOK, Promtail!Clients
<1>2. Promtail!Obtainable \in BOOLEAN BY DEF PromtailTypeOK, Promtail!Obtainable
<1>3. Promtail!SetUp(box[c], Promtail!Clients(V)).box \in Boxes BY <1>1, <1>2 DEF Promtail!SetUp, Boxes
<1>4. Promtail!Changed(box[c], Promtail!Clients(V)).box \in Boxes
  BY <1>1, <1>3 DEF Promtail!Changed, Boxes
<1>5. Promtail!Departed(box[c], Promtail!Clients(V)).box \in Boxes
  BY <1>1 DEF Promtail!Departed, Boxes, Promtail!Off
<1>6. QED BY <1>1, <1>3, <1>4, <1>5 DEF Promtail!Outcome

LEMMA HookTyped == ASSUME PromtailTypeOK, NEW e \in Promtail!Events, Promtail!Handle(e)
                   PROVE PromtailTypeOK'
<1>1. View(e) \in SUBSET Promtail!Relations
  <2>1. e[1] \in {"changed", "departed"} => e[2] \in Promtail!Relations BY DEF Promtail!Events
  <2>2. QED BY <2>1 DEF View, PromtailTypeOK
<1>2. \A c \in Promtail!Containers : box'[c] \in Boxes
  BY <1>1, HookEnds, OutcomeTyped DEF PromtailTypeOK
<1>3. box' \in [Promtail!Containers -> Boxes]
  <2>1. box' = [c \in Promtail!Containers |-> box'[c]] BY DEF Promtail!Handle
  <2>2. QED BY <1>2, <2>1
<1>4. fetched' \in BOOLEAN BY DEF Promtail!Handle, PromtailTypeOK
<1>5. todo' \subseteq Promtail!Events /\ stuck' \in Promtail!Events \cup {Promtail!NoEvent} /\ seen' \subseteq Promtail!Relations
  BY <1>1, HookEnds DEF PromtailTypeOK
<1>6. QED BY <1>3, <1>4, <1>5, HookEnds DEF PromtailTypeOK, Promtail!lokis, Promtail!env

LEMMA SpendTyped ==
    ASSUME PromtailTypeOK,
           NEW k \in Promtail!EnvSteps, Promtail!Spend(k) PROVE used' \in [Promtail!EnvSteps -> Nat]
  BY DEF PromtailTypeOK, Promtail!Spend, Promtail!EnvSteps

LEMMA NextTyped == ASSUME PromtailTypeOK, [Promtail!Next]_(Promtail!vars) PROVE PromtailTypeOK'
<1>1. ASSUME NEW e \in Promtail!Events, Promtail!Handle(e) PROVE PromtailTypeOK' BY <1>1, HookTyped
<1>2. ASSUME NEW r \in Promtail!Relations, Promtail!Relate(r) PROVE PromtailTypeOK'
  <2>1. used' \in [Promtail!EnvSteps -> Nat]
    BY <1>2, SpendTyped DEF Promtail!Relate, Promtail!EnvSteps
  <2>2. {<<"created", r>>, <<"changed", r>>} \subseteq Promtail!Events BY DEF Promtail!Events
  <2>3. QED BY <1>2, <2>1, <2>2 DEF Promtail!Relate, Promtail!unit, Promtail!env, PromtailTypeOK
<1>3. ASSUME NEW r \in Promtail!Relations, Promtail!Announce(r) PROVE PromtailTypeOK'
  <2>1. used' \in [Promtail!EnvSteps -> Nat]
    BY <1>3, SpendTyped DEF Promtail!Announce, Promtail!EnvSteps
  <2>2. <<"changed", r>> \in Promtail!Events BY DEF Promtail!Events
  <2>3. QED BY <1>3, <2>1, <2>2 DEF Promtail!Announce, Promtail!unit, Promtail!env, PromtailTypeOK
<1>4. ASSUME NEW r \in Promtail!Relations, Promtail!Break(r) PROVE PromtailTypeOK'
  <2>1. used' \in [Promtail!EnvSteps -> Nat]
    BY <1>4, SpendTyped DEF Promtail!Break, Promtail!EnvSteps
  <2>2. <<"departed", r>> \in Promtail!Events BY DEF Promtail!Events
  <2>3. QED BY <1>4, <2>1, <2>2 DEF Promtail!Break, Promtail!unit, Promtail!env, PromtailTypeOK
<1>5. ASSUME NEW r \in Promtail!Relations, NEW a \in promtail.Urls, Promtail!Publish(r, a)
      PROVE PromtailTypeOK'
  <2>1. used' \in [Promtail!EnvSteps -> Nat]
    BY <1>5, SpendTyped DEF Promtail!Publish, Promtail!EnvSteps
  <2>2. <<"changed", r>> \in Promtail!Events BY DEF Promtail!Events
  <2>3. QED BY <1>5, <2>1, <2>2 DEF Promtail!Publish, Promtail!unit, Promtail!env, PromtailTypeOK
<1>6. ASSUME NEW c \in Promtail!Containers, Promtail!Stop(c) PROVE PromtailTypeOK'
  <2>1. used' \in [Promtail!EnvSteps -> Nat]
    BY <1>6, SpendTyped DEF Promtail!Stop, Promtail!EnvSteps
  <2>2. Promtail!Empty \in Boxes BY DEF Promtail!Empty, Boxes, Promtail!Off
  <2>3. QED BY <1>6, <2>1, <2>2 DEF Promtail!Stop, Promtail!lokis, Promtail!env, PromtailTypeOK
<1>7. ASSUME NEW c \in Promtail!Containers, Promtail!Start(c) PROVE PromtailTypeOK'
  <2>1. <<"ready", c>> \in Promtail!Events BY DEF Promtail!Events
  <2>2. QED BY <1>7, <2>1 DEF Promtail!Start, Promtail!lokis, Promtail!env, PromtailTypeOK
<1>12. ASSUME NEW r \in Promtail!Relations, Promtail!Report(r) PROVE PromtailTypeOK'
  <2>1. used' \in [Promtail!EnvSteps -> Nat]
    BY <1>12, SpendTyped DEF Promtail!Report, Promtail!EnvSteps
  <2>2. <<"changed", r>> \in Promtail!Events BY DEF Promtail!Events
  <2>3. QED BY <1>12, <2>1, <2>2 DEF Promtail!Report, Promtail!unit, Promtail!env, PromtailTypeOK
<1>13. ASSUME Promtail!LeaderMoves PROVE PromtailTypeOK'
  <2>1. used' \in [Promtail!EnvSteps -> Nat]
    BY <1>13, SpendTyped DEF Promtail!LeaderMoves, Promtail!EnvSteps
  <2>2. QED BY <1>13, <2>1 DEF Promtail!LeaderMoves, Promtail!lokis, Promtail!unit, PromtailTypeOK
<1>8. ASSUME Promtail!GoOffline PROVE PromtailTypeOK'
  <2>1. used' \in [Promtail!EnvSteps -> Nat]
    BY <1>8, SpendTyped DEF Promtail!GoOffline, Promtail!EnvSteps
  <2>2. QED BY <1>8, <2>1 DEF Promtail!GoOffline, Promtail!lokis, Promtail!unit, PromtailTypeOK
<1>9. ASSUME Promtail!GoOnline PROVE PromtailTypeOK'
  BY <1>9 DEF Promtail!GoOnline, Promtail!lokis, Promtail!unit, PromtailTypeOK
<1>10. CASE UNCHANGED Promtail!vars
  BY <1>10 DEF Promtail!vars, Promtail!lokis, Promtail!unit, Promtail!env, PromtailTypeOK
<1>11. QED BY <1>1, <1>2, <1>3, <1>4, <1>5, <1>6, <1>7, <1>8, <1>9, <1>10, <1>12, <1>13
           DEF Promtail!Next

-----------------------------------------------------------------------------
(* OnlyReportsFailChanged *)

\* As long as downloads have worked, promtail is installed whole.
OnlineInv ==
    used["offline"] = 0 =>
        /\ network = "up"
        /\ \A c \in Promtail!Containers : box[c].layer => box[c].binary
        /\ stuck[1] = "changed" => stuck[2] \in errors

LEMMA OutcomeCases ==
    ASSUME NEW e, NEW c, NEW V
    PROVE  LET o == Promtail!Outcome(e, c, V)
           IN  /\ c \notin up => o.box = box[c] /\ (o.raises => e = <<"ready", c>>)
               /\ c \in up /\ (e[1] = "created" \/ (e = <<"ready", c>> /\ related # {}))
                     => o = Promtail!SetUp(box[c], Promtail!Clients(V))
               /\ c \in up /\ e[1] = "changed" => o = Promtail!Changed(box[c], Promtail!Clients(V))
               /\ c \in up /\ e[1] = "departed" => o = Promtail!Departed(box[c], Promtail!Clients(V))
               /\ c \in up /\ e[1] = "ready" /\ (e # <<"ready", c>> \/ related = {})
                     => o = [box |-> box[c], raises |-> FALSE]
<1>1. e = <<"ready", c>> => e[1] = "ready" OBVIOUS
<1>2. QED BY <1>1 DEF Promtail!Outcome

LEMMA OutcomeWhole ==
    ASSUME PromtailTypeOK, network = "up", NEW e \in Promtail!Events, NEW c \in Promtail!Containers, NEW V,
           box[c].layer => box[c].binary
    PROVE  LET o == Promtail!Outcome(e, c, V)
           IN  /\ o.box.layer => o.box.binary
               /\ e[1] = "changed" => ~o.raises
<1> DEFINE b == box[c]
           o == Promtail!Outcome(e, c, V)
<1>1. b \in Boxes BY DEF PromtailTypeOK
<1>2. /\ Promtail!SetUp(b, Promtail!Clients(V)).box.layer => Promtail!SetUp(b, Promtail!Clients(V)).box.binary
      /\ ~Promtail!SetUp(b, Promtail!Clients(V)).raises
  BY <1>1 DEF Promtail!SetUp, Promtail!BreaksOff, Promtail!Obtainable, Boxes
<1>3. /\ Promtail!Changed(b, Promtail!Clients(V)).box.layer => Promtail!Changed(b, Promtail!Clients(V)).box.binary
      /\ ~Promtail!Changed(b, Promtail!Clients(V)).raises
  BY <1>1, <1>2 DEF Promtail!Changed, Promtail!Starts, Boxes
<1>4. Promtail!Departed(b, Promtail!Clients(V)).box.layer => Promtail!Departed(b, Promtail!Clients(V)).box.binary
  BY <1>1 DEF Promtail!Departed, Boxes
<1>5. e[1] \in {"created", "changed", "departed", "ready"} /\ <<"ready", c>>[1] = "ready"
  BY DEF Promtail!Events
<1>6. CASE c \notin up
  <2>1. o.box = b /\ (e[1] = "changed" => ~o.raises) BY <1>5, <1>6, OutcomeCases
  <2>2. QED BY <2>1
<1>7. CASE c \in up /\ (e[1] = "created" \/ (e = <<"ready", c>> /\ related # {}))
  <2>1. o = Promtail!SetUp(b, Promtail!Clients(V)) BY <1>7, OutcomeCases
  <2>2. QED BY <1>2, <2>1
<1>8. CASE c \in up /\ e[1] = "changed"
  <2>1. o = Promtail!Changed(b, Promtail!Clients(V)) BY <1>8, OutcomeCases
  <2>2. QED BY <1>3, <2>1
<1>9. CASE c \in up /\ e[1] = "departed"
  <2>1. o = Promtail!Departed(b, Promtail!Clients(V)) BY <1>9, OutcomeCases
  <2>2. QED BY <1>4, <1>9, <2>1
<1>10. CASE c \in up /\ e[1] = "ready" /\ (e # <<"ready", c>> \/ related = {})
  <2>1. o.box = b /\ o.raises = FALSE BY <1>10, OutcomeCases
  <2>2. QED BY <2>1
<1>11. QED BY <1>5, <1>6, <1>7, <1>8, <1>9, <1>10

LEMMA NextOnline == ASSUME PromtailTypeOK, OnlineInv, [Promtail!Next]_(Promtail!vars)
                    PROVE OnlineInv'
<1> SUFFICES ASSUME used'["offline"] = 0 PROVE OnlineInv'
  BY DEF OnlineInv
<1>1. ASSUME NEW e \in Promtail!Events, Promtail!Handle(e) PROVE OnlineInv'
  <2>1. /\ network = "up" /\ used["offline"] = 0 /\ network' = "up"
        /\ \A c \in Promtail!Containers : box[c].layer => box[c].binary
    BY <1>1, HookEnds DEF OnlineInv, Promtail!env
  <2>2. \A c \in Promtail!Containers : box'[c].layer => box'[c].binary
    BY <1>1, <2>1, HookEnds, OutcomeWhole
  <2>3. stuck'[1] = "changed" => stuck'[2] \in errors'
    <3>1. CASE stuck' = Promtail!NoEvent BY <3>1 DEF Promtail!NoEvent
    <3>2. CASE stuck' = e /\ \E c \in Promtail!Containers : Promtail!Outcome(e, c, View(e)).raises
      BY <2>1, <3>2, OutcomeWhole
    <3>4. CASE stuck' = e /\ Promtail!Rejected(e)
      <4>1. errors' = errors BY <1>1, HookEnds DEF Promtail!lokis
      <4>2. QED BY <3>4, <4>1 DEF Promtail!Rejected
    <3>3. QED BY <1>1, <3>1, <3>2, <3>4, HookEnds
  <2>4. QED BY <2>1, <2>2, <2>3 DEF OnlineInv
<1>2. ASSUME NEW k \in Promtail!EnvSteps \ {"offline"}, Promtail!Spend(k) PROVE used["offline"] = 0
  BY <1>2 DEF Promtail!Spend, PromtailTypeOK, Promtail!EnvSteps
<1>3. ASSUME NEW r \in Promtail!Relations,
             Promtail!Relate(r) \/ Promtail!Announce(r) \/ Promtail!Report(r) \/ \E a \in promtail.Urls : Promtail!Publish(r, a)
      PROVE  OnlineInv'
  <2>1. used["offline"] = 0
    BY <1>2, <1>3 DEF Promtail!Relate, Promtail!Announce, Promtail!Report, Promtail!Publish,
                      Promtail!EnvSteps
  <2>2. UNCHANGED <<Promtail!unit, Promtail!env>> /\ errors \subseteq errors'
    BY <1>3 DEF Promtail!Relate, Promtail!Announce, Promtail!Report, Promtail!Publish
  <2>3. QED BY <2>1, <2>2 DEF Promtail!unit, Promtail!env, OnlineInv
<1>10. ASSUME NEW r \in Promtail!Relations, Promtail!Break(r) PROVE OnlineInv'
  <2>1. used["offline"] = 0 BY <1>2, <1>10 DEF Promtail!Break, Promtail!EnvSteps
  <2>2. /\ UNCHANGED <<Promtail!unit, Promtail!env>> /\ errors' = errors \ {r}
        /\ stuck # Promtail!NoEvent => stuck[2] # r
    BY <1>10 DEF Promtail!Break
  <2>3. stuck[1] = "changed" => stuck # Promtail!NoEvent BY DEF Promtail!NoEvent
  <2>4. QED BY <2>1, <2>2, <2>3 DEF Promtail!unit, Promtail!env, OnlineInv
<1>11. ASSUME Promtail!LeaderMoves PROVE OnlineInv'
  <2>1. used["offline"] = 0 BY <1>2, <1>11 DEF Promtail!LeaderMoves, Promtail!EnvSteps
  <2>2. QED BY <1>11, <2>1 DEF Promtail!LeaderMoves, Promtail!lokis, Promtail!unit, OnlineInv
<1>4. ASSUME NEW c \in Promtail!Containers, Promtail!Stop(c) PROVE OnlineInv'
  <2>1. used["offline"] = 0 BY <1>2, <1>4 DEF Promtail!Stop, Promtail!EnvSteps
  <2>2. QED
    BY <1>4, <2>1 DEF Promtail!Stop, Promtail!lokis, Promtail!env, OnlineInv, Promtail!Empty, PromtailTypeOK
<1>5. ASSUME NEW c \in Promtail!Containers, Promtail!Start(c) PROVE OnlineInv'
  BY <1>5 DEF Promtail!Start, Promtail!lokis, Promtail!env, OnlineInv
<1>6. ~Promtail!GoOffline
  <2> SUFFICES ASSUME Promtail!GoOffline PROVE FALSE OBVIOUS
  <2>1. used'["offline"] = used["offline"] + 1 /\ used["offline"] \in Nat
    BY DEF Promtail!GoOffline, Promtail!Spend, PromtailTypeOK, Promtail!EnvSteps
  <2>2. QED BY <2>1
<1>7. CASE Promtail!GoOnline BY <1>7 DEF Promtail!GoOnline, Promtail!lokis, Promtail!unit, OnlineInv
<1>8. CASE UNCHANGED Promtail!vars
  BY <1>8 DEF Promtail!vars, Promtail!lokis, Promtail!unit, Promtail!env, OnlineInv
<1>9. QED BY <1>1, <1>3, <1>4, <1>5, <1>6, <1>7, <1>8, <1>10, <1>11 DEF Promtail!Next

LEMMA InitTyped == Promtail!Init => PromtailTypeOK /\ OnlineInv
<1> SUFFICES ASSUME Promtail!Init PROVE PromtailTypeOK /\ OnlineInv OBVIOUS
<1>1. Promtail!Empty \in Boxes BY DEF Promtail!Empty, Boxes, Promtail!Off
<1>2. PromtailTypeOK BY <1>1 DEF Promtail!Init, PromtailTypeOK
<1>3. OnlineInv BY DEF Promtail!Init, OnlineInv, Promtail!Empty, Promtail!NoEvent
<1>4. QED BY <1>2, <1>3

\* No order of Loki's data and of the containers makes a relation_changed hook
\* of LogProxyConsumer fail, for any containers and relations, if the binary
\* can be downloaded, unless the leader finds that Loki reports errors in it.
THEOREM ChangedGoesThrough == Promtail!Spec => []Promtail!OnlyReportsFailChanged
<1>1. PromtailTypeOK /\ OnlineInv /\ [Promtail!Next]_(Promtail!vars) => (PromtailTypeOK /\ OnlineInv)'
  BY NextTyped, NextOnline
<1>2. PromtailTypeOK /\ OnlineInv => Promtail!OnlyReportsFailChanged
  BY DEF PromtailTypeOK, OnlineInv, Promtail!OnlyReportsFailChanged, Promtail!EnvSteps
<1>3. QED BY <1>1, <1>2, InitTyped, PTL DEF Promtail!Spec

-----------------------------------------------------------------------------
(* ProxyCurrent *)

\* What the unit sees differs from what there is only by the events it has yet
\* to handle.
ViewInv ==
    /\ \A r \in Promtail!Relations : url[r] # Promtail!None \/ r \in binaries => r \in related
    /\ Told("created") \cup Told("changed") \subseteq related
    /\ Told("departed") \cap related = {}
    /\ seen \ related \subseteq Told("departed")
    /\ related \ seen \subseteq Told("changed")

\* Container c is as what the unit sees has it, or an event is left on which
\* the unit comes to it.
Settles(c) ==
    /\ Promtail!Clients(seen) = {} => box[c].runs = Promtail!Off \/ Told("departed") # {}
    /\ Promtail!Clients(seen) # {} /\ box[c].layer =>
          \/ box[c].runs = Promtail!Clients(seen)
          \/ Told("departed") # {} \/ Told("changed") \cap seen # {}
    /\ Promtail!HasBinaries /\ used["remove"] = 0 =>
          box[c].layer \/ Told("changed") # {} \/ <<"ready", c>> \in todo

SettledInv == used["offline"] = 0 => \A c \in up : Settles(c)

\* A container that is down holds nothing.
DownInv == \A c \in Promtail!Containers \ up : box[c] = Promtail!Empty

LEMMA EventCases ==
    ASSUME NEW e \in Promtail!Events
    PROVE  \/ e[1] = "ready" /\ \E c \in Promtail!Containers : e = <<"ready", c>>
           \/ \E r \in Promtail!Relations, k \in {"created", "changed", "departed"} : e = <<k, r>>
  BY DEF Promtail!Events

LEMMA HookViews ==
    ASSUME PromtailTypeOK, ViewInv, NEW e \in Promtail!Events, Promtail!Handle(e) PROVE ViewInv'
<1>1. UNCHANGED Promtail!lokis /\ todo' \in {todo, todo \ {e}} /\ seen' = View(e) /\ e \in todo
  BY HookEnds
<1>2. UNCHANGED <<related, url, binaries>> BY <1>1 DEF Promtail!lokis
<1>3. CASE e[1] = "ready"
  <2>1. seen' = seen /\ \A k \in {"created", "changed", "departed"} : Told(k)' = Told(k)
    BY <1>1, <1>3 DEF View, Told
  <2>2. QED BY <1>2, <2>1 DEF ViewInv
<1>4. ASSUME NEW r \in Promtail!Relations, e = <<"created", r>> PROVE ViewInv'
  <2>1. /\ seen' = seen /\ Told("created")' \subseteq Told("created")
        /\ Told("changed")' = Told("changed") /\ Told("departed")' = Told("departed")
    BY <1>1, <1>4 DEF View, Told
  <2>2. QED BY <1>2, <2>1 DEF ViewInv
<1>5. ASSUME NEW r \in Promtail!Relations, e = <<"changed", r>> PROVE ViewInv'
  <2>1. /\ seen' = seen \cup {r} /\ Told("created")' = Told("created")
        /\ Told("changed") \ {r} \subseteq Told("changed")' /\ Told("changed")' \subseteq Told("changed")
        /\ Told("departed")' = Told("departed") /\ r \in Told("changed")
    BY <1>1, <1>5 DEF View, Told
  <2>2. QED BY <1>2, <2>1 DEF ViewInv
<1>6. ASSUME NEW r \in Promtail!Relations, e = <<"departed", r>> PROVE ViewInv'
  <2>1. /\ seen' = seen \ {r} /\ Told("created")' = Told("created")
        /\ Told("changed")' = Told("changed") /\ r \in Told("departed")
        /\ Told("departed") \ {r} \subseteq Told("departed")' /\ Told("departed")' \subseteq Told("departed")
    BY <1>1, <1>6 DEF View, Told
  <2>2. QED BY <1>2, <2>1 DEF ViewInv
<1>7. QED BY <1>3, <1>4, <1>5, <1>6, EventCases

LEMMA NextViews == ASSUME Promtail!ConstantsOK, PromtailTypeOK, ViewInv, [Promtail!Next]_(Promtail!vars)
                   PROVE ViewInv'
<1>1. ASSUME NEW e \in Promtail!Events, Promtail!Handle(e) PROVE ViewInv' BY <1>1, HookViews
<1>2. ASSUME NEW r \in Promtail!Relations, Promtail!Relate(r) PROVE ViewInv'
  <2>1. /\ Told("created")' = Told("created") \cup {r} /\ Told("changed")' = Told("changed") \cup {r}
        /\ Told("departed")' = Told("departed") /\ r \notin Told("departed")
    BY <1>2 DEF Promtail!Relate, Told
  <2>2. QED BY <1>2, <2>1 DEF Promtail!Relate, Promtail!unit, ViewInv
<1>3. ASSUME NEW r \in Promtail!Relations, Promtail!Announce(r) PROVE ViewInv'
  <2>1. /\ Told("created")' = Told("created") /\ Told("changed")' = Told("changed") \cup {r}
        /\ Told("departed")' = Told("departed")
    BY <1>3 DEF Promtail!Announce, Told
  <2>2. QED BY <1>3, <2>1 DEF Promtail!Announce, Promtail!unit, ViewInv
<1>4. ASSUME NEW r \in Promtail!Relations, Promtail!Break(r) PROVE ViewInv'
  <2>1. /\ Told("created")' = Told("created") \ {r} /\ Told("changed")' = Told("changed") \ {r}
        /\ Told("departed")' = Told("departed") \cup IF r \in seen THEN {r} ELSE {}
    BY <1>4 DEF Promtail!Break, Told
  <2>2. \A q \in Promtail!Relations : url'[q] # Promtail!None => q # r /\ url[q] # Promtail!None
    BY <1>4 DEF Promtail!Break, PromtailTypeOK
  <2>3. /\ related' = related \ {r} /\ binaries' = binaries \ {r} /\ seen' = seen /\ r \in related
    BY <1>4 DEF Promtail!Break, Promtail!unit
  <2>4. QED BY <2>1, <2>2, <2>3 DEF ViewInv
<1>5. ASSUME NEW r \in Promtail!Relations, NEW a \in promtail.Urls, Promtail!Publish(r, a)
      PROVE ViewInv'
  <2>1. /\ Told("created")' = Told("created") /\ Told("changed")' = Told("changed") \cup {r}
        /\ Told("departed")' = Told("departed")
    BY <1>5 DEF Promtail!Publish, Told
  <2>2. \A q \in Promtail!Relations : url'[q] # Promtail!None => q = r \/ url[q] # Promtail!None
    BY <1>5 DEF Promtail!Publish, PromtailTypeOK
  <2>3. related' = related /\ binaries' = binaries /\ seen' = seen /\ r \in related
    BY <1>5 DEF Promtail!Publish, Promtail!unit
  <2>4. QED BY <2>1, <2>2, <2>3 DEF ViewInv
<1>6. ASSUME NEW c \in Promtail!Containers, Promtail!Stop(c) PROVE ViewInv'
  BY <1>6 DEF Promtail!Stop, Promtail!lokis, ViewInv, Told
<1>7. ASSUME NEW c \in Promtail!Containers, Promtail!Start(c) PROVE ViewInv'
  <2>1. \A k \in {"created", "changed", "departed"} : Told(k)' = Told(k)
    BY <1>7 DEF Promtail!Start, Told
  <2>2. QED BY <1>7, <2>1 DEF Promtail!Start, Promtail!lokis, ViewInv
<1>8. CASE Promtail!GoOffline \/ Promtail!GoOnline \/ Promtail!LeaderMoves
  BY <1>8 DEF Promtail!GoOffline, Promtail!GoOnline, Promtail!LeaderMoves, Promtail!lokis, Promtail!unit,
              ViewInv, Told
<1>11. ASSUME NEW r \in Promtail!Relations, Promtail!Report(r) PROVE ViewInv'
  <2>1. /\ Told("created")' = Told("created") /\ Told("changed")' = Told("changed") \cup {r}
        /\ Told("departed")' = Told("departed")
    BY <1>11 DEF Promtail!Report, Told
  <2>2. QED BY <1>11, <2>1 DEF Promtail!Report, Promtail!unit, ViewInv
<1>9. CASE UNCHANGED Promtail!vars
  BY <1>9 DEF Promtail!vars, Promtail!lokis, Promtail!unit, ViewInv, Told
<1>10. QED BY <1>1, <1>2, <1>3, <1>4, <1>5, <1>6, <1>7, <1>8, <1>9, <1>11 DEF Promtail!Next

\* What a hook leaves in container c settles it, if nothing is taken off the
\* queue but its event.
LEMMA OutcomeSettles ==
    ASSUME PromtailTypeOK, network = "up", NEW e \in Promtail!Events, NEW c \in up, Settles(c),
           box[c].layer => box[c].binary,
           UNCHANGED <<related, url, binaries, used>>, seen' = View(e),
           todo' \in {todo, todo \ {e}}, box'[c] = Promtail!Outcome(e, c, View(e)).box
    PROVE  Settles(c)'
<1> DEFINE V == View(e)
           b == box[c]
<1>1. c \in Promtail!Containers /\ b \in Boxes /\ e \in Promtail!Events BY DEF PromtailTypeOK
<1>2. Promtail!Clients(seen)' = Promtail!Clients(V) /\ Promtail!HasBinaries' = Promtail!HasBinaries /\ used' = used
  BY DEF Promtail!Clients, Promtail!HasBinaries
<1>3. /\ Told("changed")' \subseteq Told("changed") /\ Told("departed")' \subseteq Told("departed")
      /\ e[1] # "changed" => Told("changed")' = Told("changed")
      /\ e[1] # "departed" => Told("departed")' = Told("departed")
      /\ e # <<"ready", c>> /\ <<"ready", c>> \in todo => <<"ready", c>> \in todo'
  BY DEF Told
<1>4. Promtail!SetUp(b, Promtail!Clients(V)).box = IF ~Promtail!HasBinaries THEN b
        ELSE [layer |-> TRUE, binary |-> TRUE, config |-> Promtail!Clients(V),
              runs |-> IF Promtail!Clients(V) # {} THEN Promtail!Clients(V) ELSE b.runs]
  BY <1>1 DEF Promtail!SetUp, Promtail!BreaksOff, Promtail!Obtainable, Boxes
<1>5. CASE e[1] = "created" \/ (e = <<"ready", c>> /\ related # {})
  <2>1. box'[c] = Promtail!SetUp(b, Promtail!Clients(V)).box BY <1>5, OutcomeCases
  <2>2. V = seen /\ e[1] \notin {"changed", "departed"} BY <1>5 DEF View
  <2>3. /\ Told("changed")' = Told("changed") /\ Told("departed")' = Told("departed")
        /\ ~Promtail!HasBinaries => box'[c] = b
        /\ Promtail!HasBinaries => box'[c].layer /\ box'[c].runs = IF Promtail!Clients(V) # {} THEN Promtail!Clients(V) ELSE b.runs
    BY <1>3, <1>4, <2>1, <2>2
  <2>4. QED BY <1>2, <2>2, <2>3 DEF Settles
<1>6. CASE e[1] = "ready" /\ (e # <<"ready", c>> \/ related = {})
  <2>1. box'[c] = b BY <1>6, OutcomeCases
  <2>2. V = seen /\ Told("changed")' = Told("changed") /\ Told("departed")' = Told("departed")
    BY <1>3, <1>6 DEF View
  <2>3. related = {} => ~Promtail!HasBinaries BY DEF Promtail!HasBinaries
  <2>4. QED BY <1>2, <1>3, <1>6, <2>1, <2>2, <2>3 DEF Settles
<1>7. CASE e[1] = "changed"
  <2>1. box'[c] = Promtail!Changed(b, Promtail!Clients(V)).box BY <1>7, OutcomeCases
  <2>2. Promtail!Clients(V) = {} => Promtail!Clients(seen) = {} BY <1>7 DEF View, Promtail!Clients
  <2>3. /\ Promtail!Clients(V) = {} => box'[c].runs = b.runs
        /\ Promtail!Clients(V) # {} /\ box'[c].layer => box'[c].runs = Promtail!Clients(V)
        /\ Promtail!HasBinaries => box'[c].layer
    <3>1. CASE ~b.layer
      <4>1. box'[c] = Promtail!SetUp(b, Promtail!Clients(V)).box BY <2>1, <3>1 DEF Promtail!Changed
      <4>2. QED BY <1>4, <3>1, <4>1
    <3>2. CASE b.layer
      <4>1. Promtail!Starts(b) BY <3>2 DEF Promtail!Starts
      <4>2. box'[c] = [b EXCEPT !.config = Promtail!Clients(V),
                                !.runs = IF Promtail!Clients(V) # {} THEN Promtail!Clients(V) ELSE @]
        BY <2>1, <3>2, <4>1 DEF Promtail!Changed
      <4>3. QED BY <1>1, <3>2, <4>2 DEF Boxes
    <3>3. QED BY <3>1, <3>2
  <2>4. Told("departed")' = Told("departed") BY <1>3, <1>7
  <2>5. QED BY <1>2, <2>2, <2>3, <2>4 DEF Settles
<1>8. CASE e[1] = "departed"
  <2>1. box'[c] = Promtail!Departed(b, Promtail!Clients(V)).box BY <1>8, OutcomeCases
  <2>2. /\ box'[c].layer = b.layer
        /\ Promtail!Clients(V) = {} => box'[c].runs = Promtail!Off
        /\ Promtail!Clients(V) # {} /\ b.layer => box'[c].runs = Promtail!Clients(V)
    BY <1>1, <2>1 DEF Promtail!Departed, Promtail!Starts, Boxes
  <2>3. Told("changed")' = Told("changed") /\ e # <<"ready", c>> BY <1>3, <1>8
  <2>4. QED BY <1>2, <1>3, <2>2, <2>3 DEF Settles
<1>9. QED BY <1>1, <1>5, <1>6, <1>7, <1>8, EventCases

LEMMA HookSettles ==
    ASSUME PromtailTypeOK, OnlineInv, SettledInv,
           NEW e \in Promtail!Events, Promtail!Handle(e) PROVE SettledInv'
<1> SUFFICES ASSUME used'["offline"] = 0, NEW c \in up' PROVE Settles(c)'
  BY DEF SettledInv
<1>1. /\ UNCHANGED <<related, url, binaries, used>> /\ seen' = View(e) /\ e \in todo
      /\ up' = up /\ c \in Promtail!Containers /\ c \in up
  BY HookEnds DEF Promtail!lokis, PromtailTypeOK
<1>2. network = "up" /\ (\A d \in Promtail!Containers : box[d].layer => box[d].binary) /\ Settles(c)
  BY <1>1 DEF OnlineInv, SettledInv
<1>3. CASE box'[c] = Promtail!Outcome(e, c, View(e)).box
  <2>1. todo' \in {todo, todo \ {e}} BY HookEnds
  <2>2. QED BY <1>1, <1>2, <1>3, <2>1, OutcomeSettles
<1>6. CASE /\ box'[c] = box[c] /\ todo' = todo /\ Promtail!Rejected(e)
  <2>1. PICK r \in Promtail!Relations : e = <<"changed", r>>
    BY <1>6, EventCases DEF Promtail!Rejected
  <2>2. seen' = seen \cup {r} /\ r \in Told("changed") BY <1>1, <2>1 DEF View, Told
  <2>3. Told("changed")' = Told("changed") /\ Told("departed")' = Told("departed")
    BY <1>6 DEF Told
  <2>4. Promtail!HasBinaries' = Promtail!HasBinaries BY <1>1 DEF Promtail!HasBinaries
  <2>5. Promtail!Clients(seen) \subseteq Promtail!Clients(seen)' BY <1>1, <2>2 DEF Promtail!Clients
  <2>6. QED BY <1>1, <1>2, <1>6, <2>2, <2>3, <2>4, <2>5 DEF Settles
<1>4. CASE /\ box'[c] = box[c] /\ todo' = todo
           /\ \E d \in Promtail!Containers : Promtail!Outcome(e, d, View(e)).raises
  <2>1. e[1] # "changed" BY <1>2, <1>4, OutcomeWhole
  <2>2. Told("changed")' = Told("changed") /\ Told("departed")' = Told("departed")
    BY <1>4 DEF Told
  <2>3. Promtail!HasBinaries' = Promtail!HasBinaries BY <1>1 DEF Promtail!HasBinaries
  <2>4. CASE e[1] = "departed"
    <3>1. Told("departed") # {} BY <1>1, <2>4, EventCases DEF Told
    <3>2. QED BY <1>1, <1>2, <1>4, <2>2, <2>3, <3>1 DEF Settles
  <2>5. CASE e[1] # "departed"
    <3>1. seen' = seen BY <1>1, <2>1, <2>5 DEF View
    <3>2. Promtail!Clients(seen)' = Promtail!Clients(seen) BY <1>1, <3>1 DEF Promtail!Clients
    <3>3. QED BY <1>1, <1>2, <1>4, <2>2, <2>3, <3>1, <3>2 DEF Settles
  <2>6. QED BY <2>4, <2>5
<1>5. QED BY <1>1, <1>3, <1>4, <1>6, HookEnds

LEMMA NextDown == ASSUME PromtailTypeOK, DownInv, [Promtail!Next]_(Promtail!vars) PROVE DownInv'
<1>1. ASSUME NEW e \in Promtail!Events, Promtail!Handle(e) PROVE DownInv'
  <2>1. up' = up /\ \A c \in Promtail!Containers : box'[c] \in {box[c], Promtail!Outcome(e, c, View(e)).box}
    BY <1>1, HookEnds
  <2>2. \A c \in Promtail!Containers \ up : Promtail!Outcome(e, c, View(e)).box = box[c]
    BY OutcomeCases
  <2>3. QED BY <2>1, <2>2 DEF DownInv
<1>2. ASSUME NEW c \in Promtail!Containers, Promtail!Stop(c) PROVE DownInv'
  BY <1>2 DEF Promtail!Stop, DownInv, PromtailTypeOK
<1>3. CASE UNCHANGED <<up, box>> BY <1>3 DEF DownInv
<1>4. ASSUME NEW c \in Promtail!Containers, Promtail!Start(c) PROVE DownInv'
  BY <1>4 DEF Promtail!Start, DownInv
<1>5. QED BY <1>1, <1>2, <1>3, <1>4
          DEF Promtail!Next, Promtail!Relate, Promtail!Announce, Promtail!Report, Promtail!Break,
             Promtail!Publish, Promtail!GoOffline, Promtail!GoOnline, Promtail!LeaderMoves, Promtail!vars, Promtail!unit

LEMMA NextSettles ==
    ASSUME Promtail!ConstantsOK, PromtailTypeOK, OnlineInv, DownInv, SettledInv, [Promtail!Next]_(Promtail!vars) PROVE SettledInv'
<1> SUFFICES ASSUME used'["offline"] = 0, NEW c \in up' PROVE Settles(c)'
  BY DEF SettledInv
<1>1. ASSUME NEW e \in Promtail!Events, Promtail!Handle(e) PROVE Settles(c)'
  BY <1>1, HookSettles DEF SettledInv
<1>2. ASSUME NEW k \in Promtail!EnvSteps \ {"all"}, Promtail!Spend(k)
      PROVE  /\ k # "offline" /\ used["offline"] = 0 /\ (k # "remove" => used'["remove"] = used["remove"])
             /\ k = "remove" => used'["remove"] # 0
  <2>1. \A j \in Promtail!EnvSteps \ {"all"} :
            used'[j] = (IF j = k THEN used[j] + 1 ELSE used[j]) /\ used[j] \in Nat
    BY <1>2 DEF Promtail!Spend, PromtailTypeOK
  <2>2. "offline" \in Promtail!EnvSteps /\ "remove" \in Promtail!EnvSteps BY DEF Promtail!EnvSteps
  <2>3. QED BY <2>1, <2>2
<1>3. ASSUME NEW r \in Promtail!Relations, Promtail!Relate(r) PROVE Settles(c)'
  <2>1. /\ Told("changed")' = Told("changed") \cup {r} /\ Told("departed")' = Told("departed")
        /\ UNCHANGED <<seen, url, box, up>>
    BY <1>3 DEF Promtail!Relate, Told, Promtail!unit
  <2>2. Promtail!Clients(seen)' = Promtail!Clients(seen) BY <2>1 DEF Promtail!Clients
  <2>3. Settles(c) BY <1>2, <1>3, <2>1 DEF Promtail!Relate, SettledInv, Promtail!EnvSteps
  <2>4. QED BY <2>1, <2>2, <2>3 DEF Settles
<1>4. ASSUME NEW r \in Promtail!Relations, Promtail!Announce(r) PROVE Settles(c)'
  <2>1. /\ Told("changed")' = Told("changed") \cup {r} /\ Told("departed")' = Told("departed")
        /\ UNCHANGED <<seen, url, box, up>>
    BY <1>4 DEF Promtail!Announce, Told, Promtail!unit
  <2>2. Promtail!Clients(seen)' = Promtail!Clients(seen) BY <2>1 DEF Promtail!Clients
  <2>3. Settles(c) BY <1>2, <1>4, <2>1 DEF Promtail!Announce, SettledInv, Promtail!EnvSteps
  <2>4. QED BY <2>1, <2>2, <2>3 DEF Settles
<1>12. ASSUME NEW r \in Promtail!Relations, Promtail!Report(r) PROVE Settles(c)'
  <2>1. /\ Told("changed")' = Told("changed") \cup {r} /\ Told("departed")' = Told("departed")
        /\ UNCHANGED <<related, binaries, seen, url, box, up>>
    BY <1>12 DEF Promtail!Report, Told, Promtail!unit
  <2>2. /\ Promtail!Clients(seen)' = Promtail!Clients(seen)
        /\ Promtail!HasBinaries' = Promtail!HasBinaries
    BY <2>1 DEF Promtail!Clients, Promtail!HasBinaries
  <2>3. Settles(c) /\ used'["remove"] = used["remove"]
    BY <1>2, <1>12, <2>1 DEF Promtail!Report, SettledInv, Promtail!EnvSteps
  <2>4. QED BY <1>12, <2>1, <2>2, <2>3 DEF Settles, Promtail!Report
<1>13. ASSUME Promtail!LeaderMoves PROVE Settles(c)'
  <2>1. /\ Told("changed")' = Told("changed") /\ Told("departed")' = Told("departed")
        /\ UNCHANGED <<related, binaries, seen, url, box, up, todo>>
    BY <1>13 DEF Promtail!LeaderMoves, Told, Promtail!lokis, Promtail!unit
  <2>2. /\ Promtail!Clients(seen)' = Promtail!Clients(seen)
        /\ Promtail!HasBinaries' = Promtail!HasBinaries
    BY <2>1 DEF Promtail!Clients, Promtail!HasBinaries
  <2>3. Settles(c) /\ used'["remove"] = used["remove"]
    BY <1>2, <1>13, <2>1 DEF Promtail!LeaderMoves, SettledInv, Promtail!EnvSteps
  <2>4. QED BY <2>1, <2>2, <2>3 DEF Settles
<1>5. ASSUME NEW r \in Promtail!Relations, Promtail!Break(r) PROVE Settles(c)'
  <2>1. /\ Told("changed")' = Told("changed") \ {r}
        /\ Told("departed")' = Told("departed") \cup IF r \in seen THEN {r} ELSE {}
        /\ UNCHANGED <<seen, box, up>>
    BY <1>5 DEF Promtail!Break, Told, Promtail!unit
  <2>2. used'["remove"] # 0 BY <1>2, <1>5 DEF Promtail!Break, Promtail!EnvSteps
  <2>3. Settles(c) BY <1>2, <1>5, <2>1 DEF Promtail!Break, SettledInv, Promtail!EnvSteps
  <2>4. CASE r \in seen BY <2>1, <2>2, <2>4 DEF Settles
  <2>5. CASE r \notin seen
    <3>1. \A q \in seen : url'[q] = url[q] BY <1>5, <2>5 DEF Promtail!Break, PromtailTypeOK
    <3>2. Promtail!Clients(seen)' = Promtail!Clients(seen) BY <2>1, <3>1 DEF Promtail!Clients
    <3>3. Told("changed")' \cap seen = Told("changed") \cap seen BY <2>1, <2>5
    <3>4. QED BY <2>1, <2>2, <2>3, <2>5, <3>2, <3>3 DEF Settles
  <2>6. QED BY <2>4, <2>5
<1>6. ASSUME NEW r \in Promtail!Relations, NEW a \in promtail.Urls, Promtail!Publish(r, a)
      PROVE Settles(c)'
  <2>1. /\ Told("changed")' = Told("changed") \cup {r} /\ Told("departed")' = Told("departed")
        /\ UNCHANGED <<seen, box, up>>
    BY <1>6 DEF Promtail!Publish, Told, Promtail!unit
  <2>2. Settles(c) BY <1>2, <1>6, <2>1 DEF Promtail!Publish, SettledInv, Promtail!EnvSteps
  <2>3. \A q \in Promtail!Relations : url'[q] = IF q = r THEN a ELSE url[q]
    BY <1>6 DEF Promtail!Publish, PromtailTypeOK
  <2>4. CASE r \in seen
    <3>1. a \in Promtail!Clients(seen)'
      BY <2>1, <2>3, <2>4 DEF Promtail!Clients, Promtail!ConstantsOK
    <3>2. r \in Told("changed")' \cap seen' BY <2>1, <2>4
    <3>3. QED BY <2>1, <3>1, <3>2 DEF Settles
  <2>5. CASE r \notin seen
    <3>1. Promtail!Clients(seen)' = Promtail!Clients(seen)
      BY <2>1, <2>3, <2>5 DEF Promtail!Clients, PromtailTypeOK
    <3>2. QED BY <2>1, <2>2, <3>1 DEF Settles
  <2>6. QED BY <2>4, <2>5
<1>7. ASSUME NEW d \in Promtail!Containers, Promtail!Stop(d) PROVE Settles(c)'
  <2>1. /\ UNCHANGED <<related, seen, url, binaries, todo>> /\ up' = up \ {d}
        /\ Told("changed")' = Told("changed") /\ Told("departed")' = Told("departed")
    BY <1>7 DEF Promtail!Stop, Told, Promtail!lokis
  <2>2. box'[c] = box[c] /\ c \in up BY <1>7, <2>1 DEF Promtail!Stop, PromtailTypeOK
  <2>3. Promtail!Clients(seen)' = Promtail!Clients(seen) /\ Promtail!HasBinaries' = Promtail!HasBinaries
    BY <2>1 DEF Promtail!Clients, Promtail!HasBinaries
  <2>4. Settles(c) /\ used'["remove"] = used["remove"]
    BY <1>2, <1>7, <2>2 DEF Promtail!Stop, SettledInv, Promtail!EnvSteps
  <2>5. QED BY <2>1, <2>2, <2>3, <2>4 DEF Settles
<1>8. ASSUME NEW d \in Promtail!Containers, Promtail!Start(d) PROVE Settles(c)'
  <2>1. /\ UNCHANGED <<related, seen, url, binaries, box, used>> /\ up' = up \cup {d}
        /\ todo' = todo \cup {<<"ready", d>>}
        /\ Told("changed")' = Told("changed") /\ Told("departed")' = Told("departed")
    BY <1>8 DEF Promtail!Start, Told, Promtail!lokis
  <2>2. Promtail!Clients(seen)' = Promtail!Clients(seen) /\ Promtail!HasBinaries' = Promtail!HasBinaries
    BY <2>1 DEF Promtail!Clients, Promtail!HasBinaries
  <2>3. CASE c \in up
    <3>1. Settles(c) BY <2>1, <2>3 DEF SettledInv
    <3>2. QED BY <2>1, <2>2, <3>1 DEF Settles
  <2>4. CASE c = d /\ c \notin up
    <3>1. box[c] = Promtail!Empty BY <2>4 DEF DownInv
    <3>2. QED BY <2>1, <2>2, <2>4, <3>1 DEF Settles, Promtail!Empty
  <2>5. QED BY <2>1, <2>3, <2>4
<1>9. ASSUME Promtail!GoOffline PROVE FALSE
  BY <1>2, <1>9 DEF Promtail!GoOffline, Promtail!EnvSteps
<1>10. CASE Promtail!GoOnline \/ UNCHANGED Promtail!vars
  <2>1. /\ UNCHANGED <<related, seen, url, binaries, box, used, up, todo>>
        /\ Told("changed")' = Told("changed") /\ Told("departed")' = Told("departed")
    BY <1>10 DEF Promtail!GoOnline, Promtail!vars, Promtail!lokis, Promtail!unit, Told
  <2>2. Promtail!Clients(seen)' = Promtail!Clients(seen) /\ Promtail!HasBinaries' = Promtail!HasBinaries
    BY <2>1 DEF Promtail!Clients, Promtail!HasBinaries
  <2>3. Settles(c) BY <2>1 DEF SettledInv
  <2>4. QED BY <2>1, <2>2, <2>3 DEF Settles
<1>11. QED BY <1>1, <1>3, <1>4, <1>5, <1>6, <1>7, <1>8, <1>9, <1>10, <1>12, <1>13 DEF Promtail!Next

PromtailInv == PromtailTypeOK /\ OnlineInv /\ ViewInv /\ DownInv /\ SettledInv

LEMMA InitInv == Promtail!Init => PromtailInv
<1> SUFFICES ASSUME Promtail!Init PROVE PromtailInv OBVIOUS
<1>1. PromtailTypeOK /\ OnlineInv BY InitTyped
<1>2. \A k : Told(k) = {} BY DEF Promtail!Init, Told
<1>3. ViewInv BY <1>2 DEF Promtail!Init, ViewInv
<1>4. DownInv BY DEF Promtail!Init, DownInv
<1>5. SettledInv BY DEF Promtail!Init, SettledInv
<1>6. QED BY <1>1, <1>3, <1>4, <1>5 DEF PromtailInv

LEMMA Settled == PromtailInv => Promtail!ProxyCurrent
<1> SUFFICES ASSUME PromtailInv, todo = {}, used["offline"] = 0, NEW c \in up
             PROVE  /\ Promtail!Clients(related) = {} => box[c].runs = Promtail!Off
                    /\ Promtail!Clients(related) # {} /\ (box[c].layer \/ (Promtail!HasBinaries /\ used["remove"] = 0))
                          => box[c].runs = Promtail!Clients(related)
  BY DEF Promtail!ProxyCurrent
<1>1. \A k : Told(k) = {} BY DEF Told
<1>2. seen = related BY <1>1 DEF PromtailInv, ViewInv
<1>3. Settles(c) BY DEF PromtailInv, SettledInv
<1>4. QED BY <1>1, <1>2, <1>3 DEF Settles

\* Once the hooks of LogProxyConsumer are done, promtail runs in each container
\* that is up with the endpoints that the Loki units publish, and does not run
\* when there are none: for any containers and relations, and whatever starts,
\* stops, moves and goes meanwhile, if the binary can be downloaded.
THEOREM ProxyStaysCurrent == ASSUME Promtail!ConstantsOK
                             PROVE Promtail!Spec => []Promtail!ProxyCurrent
<1>1. PromtailInv /\ [Promtail!Next]_(Promtail!vars) => PromtailInv'
  BY NextTyped, NextOnline, NextViews, NextDown, NextSettles DEF PromtailInv
<1>2. QED BY <1>1, InitInv, Settled, PTL DEF Promtail!Spec

-----------------------------------------------------------------------------
(* Of Libraries, in every behaviour of which one of the modules runs *)

\* What runs is LokiPush all along, or never.
LEMMA LokiRuns == Spec => []~(library = "loki") \/ Loki!Spec
<1>1. library = "loki" /\ Init => Loki!Init
  BY DEF Init
<1>2. library = "loki" /\ [Next]_vars => [Loki!Next]_(Loki!vars)
  BY DEF Next, vars, ofLoki, Loki!vars, Loki!loki, Loki!data, Loki!client
<1>3. library = "loki" /\ [Next]_vars => (library = "loki")'
  BY DEF Next, vars
<1>4. ~(library = "loki") /\ [Next]_vars => (~(library = "loki"))'
  BY DEF Next, vars
<1>5. QED
  BY <1>1, <1>2, <1>3, <1>4, PTL DEF Spec, Loki!Spec

\* Once its hooks have run, the URL of a Loki unit is in each relation that none
\* with alert rules comes before, as long as no relation was removed.
THEOREM LibrariesEndpointsCurrent == Spec => []EndpointsCurrent
<1>1. Loki!Spec => []Loki!EndpointsCurrent
  BY EndpointsStayCurrent, ConstantsAssumption
<1>2. QED
  BY <1>1, LokiRuns, PTL DEF EndpointsCurrent

\* And each Loki unit has the rules of the revisions that its clients run, for all
\* clients whose rules are valid, and of no client that is gone.
THEOREM LibrariesLokiRulesCurrent == Spec => []LokiRulesCurrent
<1>1. Loki!Spec => []Loki!RulesCurrent
  BY RulesStayCurrent, ConstantsAssumption
<1>2. QED
  BY <1>1, LokiRuns, PTL DEF LokiRulesCurrent

\* And each client whose rules Loki cannot use has been told so, as long as the
\* same unit leads.
THEOREM LibrariesErrorsReachClient == Spec => []ErrorsReachClient
<1>1. Loki!Spec => []Loki!ErrorsReachClient
  BY ErrorsAreReported, ConstantsAssumption
<1>2. QED
  BY <1>1, LokiRuns, PTL DEF ErrorsReachClient

\* What runs is LogProxy all along, or never.
LEMMA PromtailRuns == Spec => []~(library = "promtail") \/ Promtail!Spec
<1>1. library = "promtail" /\ Init => Promtail!Init
  BY DEF Init
<1>2. library = "promtail" /\ [Next]_vars => [Promtail!Next]_(Promtail!vars)
  BY DEF Next, vars, ofPromtail, Promtail!vars, Promtail!lokis, Promtail!unit, Promtail!env
<1>3. library = "promtail" /\ [Next]_vars => (library = "promtail")'
  BY DEF Next, vars
<1>4. ~(library = "promtail") /\ [Next]_vars => (~(library = "promtail"))'
  BY DEF Next, vars
<1>5. QED
  BY <1>1, <1>2, <1>3, <1>4, PTL DEF Spec, Promtail!Spec

\* A relation_changed hook of the log proxy does not fail, whatever the order of
\* data and containers, unless a download did before or Loki reports errors.
THEOREM LibrariesOnlyReportsFail == Spec => []OnlyReportsFailChanged
<1>1. Promtail!Spec => []Promtail!OnlyReportsFailChanged
  BY ChangedGoesThrough
<1>2. QED
  BY <1>1, PromtailRuns, PTL DEF OnlyReportsFailChanged

\* Once the hooks have run, and if the network was there, Promtail runs with the
\* endpoints of the day in every container that is up and was set up, and does
\* not run where no Loki is related.
THEOREM LibrariesProxyCurrent == Spec => []ProxyCurrent
<1>1. Promtail!Spec => []Promtail!ProxyCurrent
  BY ProxyStaysCurrent, ConstantsAssumption
<1>2. QED
  BY <1>1, PromtailRuns, PTL DEF ProxyCurrent

=============================================================================
