------------------------- MODULE LogForwarder_proofs -------------------------
(* What LogForwarder keeps true, for any units and any environment. *)
EXTENDS LogForwarder, TLAPS

LEMMA EventCases ==
    ASSUME NEW e \in Event
    PROVE  \/ \E x \in Lokis, k \in {"joined", "changed", "departed"} :
                 e = About(k, x) /\ e.kind = k /\ e.loki = x
           \/ e = PebbleIsReady /\ e.kind = "pebble-ready"
  BY DEF Event, LokiEvent, About, PebbleIsReady

LEMMA EventsDiffer ==
    /\ \A k, l, x, y : About(k, x) = About(l, y) => k = l /\ x = y
    /\ \A k \in {"joined", "changed", "departed"}, x \in Lokis :
          /\ About(k, x) # PebbleIsReady /\ About(k, x) # NoEvent
          /\ About(k, x).kind = k /\ About(k, x).loki = x
    /\ PebbleIsReady # NoEvent /\ PebbleIsReady.kind = "pebble-ready"
<1>1. \A k, l, x, y : About(k, x) = About(l, y) => k = l /\ x = y
  <2> SUFFICES ASSUME NEW k, NEW l, NEW x, NEW y, About(k, x) = About(l, y)
               PROVE  k = l /\ x = y
    OBVIOUS
  <2>1. About(k, x).kind = About(l, y).kind /\ About(k, x).loki = About(l, y).loki
    OBVIOUS
  <2>2. QED BY <2>1 DEF About
<1>2. ASSUME NEW k \in {"joined", "changed", "departed"}, NEW x \in Lokis
      PROVE  About(k, x) \in Event /\ About(k, x).kind = k /\ About(k, x).loki = x
  BY DEF Event, LokiEvent, About
<1>3. PebbleIsReady \in Event /\ PebbleIsReady.kind = "pebble-ready"
  BY DEF Event, PebbleIsReady
<1>4. QED BY <1>1, <1>2, <1>3, ConstantsAssumption

\* Ready relations consist of units that have published.
LEMMA EndpointsOffered ==
    ASSUME TypeOK, NEW V \in SUBSET Lokis
    PROVE  /\ Endpoints(V) \subseteq V
           /\ \A x \in Endpoints(V) : offered[x] \in Urls
  BY ConstantsAssumption DEF TypeOK, Endpoints, FetchEndpoints

LEMMA SeenTyped ==
    ASSUME TypeOK, NEW u \in Units, NEW e \in Event
    PROVE  Seen(u, e) \in SUBSET Lokis
  BY EventCases DEF TypeOK, Seen

LEMMA InitTypeOK == Init => TypeOK
  BY DEF Init, TypeOK, Event

LEMMA NextTypeOK == TypeOK /\ [Next]_vars => TypeOK'
<1> SUFFICES ASSUME TypeOK, [Next]_vars PROVE TypeOK'
  OBVIOUS
<1> USE DEF TypeOK
<1>1. ASSUME NEW k \in EnvSteps, Spend(k) PROVE spent' \in [EnvSteps -> Nat]
  BY <1>1 DEF Spend
<1>2. ASSUME NEW u \in Units, NEW e \in Event, Handle(u, e) PROVE TypeOK'
  <2>1. Seen(u, e) \in SUBSET Lokis BY SeenTyped
  <2>2. target' \in [Units -> [Lokis -> Urls \cup {Removed, Unset}]]
    <3> DEFINE active == Endpoints(Seen(u, e))
    <3>1. \A x \in active : offered[x] \in Urls BY <2>1, EndpointsOffered
    <3>2. Updated(target[u], active) \in [Lokis -> Urls \cup {Removed, Unset}]
      BY <3>1 DEF Updated
    <3>3. QED BY <1>2, <3>2 DEF Handle
  <2>3. published' \subseteq Relations
    BY <1>2, EventCases, ConstantsAssumption DEF Handle
  <2>4. QED BY <1>2, <2>1, <2>2, <2>3 DEF Handle
<1>3. ASSUME NEW u \in Units, NEW e \in Event, HandleFails(u, e) PROVE TypeOK'
  <2>1. Seen(u, e) \in SUBSET Lokis BY SeenTyped
  <2>2. spent' \in [EnvSteps -> Nat] BY <1>1, <1>3 DEF HandleFails, EnvSteps
  <2>3. target' \in [Units -> [Lokis -> Urls \cup {Removed, Unset}]]
    BY <1>3 DEF HandleFails
  <2>4. QED BY <1>3, <2>1, <2>2, <2>3 DEF HandleFails
<1>4. ASSUME NEW x \in Lokis, Join(x) PROVE TypeOK'
  <2>1. spent' \in [EnvSteps -> Nat] BY <1>1, <1>4 DEF Join, EnvSteps
  <2>2. {About("joined", x), About("changed", x)} \subseteq Event
    BY DEF Event, LokiEvent, About
  <2>3. QED BY <1>4, <2>1, <2>2 DEF Join
<1>5. ASSUME NEW x \in Lokis, NEW url \in Urls, Publish(x, url) PROVE TypeOK'
  <2>1. spent' \in [EnvSteps -> Nat] BY <1>1, <1>5 DEF Publish, EnvSteps
  <2>2. About("changed", x) \in Event BY DEF Event, LokiEvent, About
  <2>3. QED BY <1>5, <2>1, <2>2 DEF Publish
<1>6. ASSUME NEW x \in Lokis, Depart(x) PROVE TypeOK'
  <2>1. spent' \in [EnvSteps -> Nat] BY <1>1, <1>6 DEF Depart, EnvSteps
  <2>2. About("departed", x) \in Event BY DEF Event, LokiEvent, About
  <2>3. QED BY <1>6, <2>1, <2>2 DEF Depart
<1>7. ASSUME NEW u \in Units, Restart(u) \/ PebbleUp(u) PROVE TypeOK'
  <2>1. CASE Restart(u)
    <3>1. spent' \in [EnvSteps -> Nat] BY <1>1, <2>1 DEF Restart, EnvSteps
    <3>2. QED BY <2>1, <3>1 DEF Restart
  <2>2. CASE PebbleUp(u) BY <2>2 DEF PebbleUp, Event
  <2>3. QED BY <1>7, <2>1, <2>2
<1>8. ASSUME NEW u \in Units \cup {NoLeader}, LeaderMoves(u) PROVE TypeOK'
  BY <1>1, <1>8 DEF LeaderMoves, EnvSteps
<1>9. CASE UNCHANGED vars BY <1>9 DEF vars
<1>10. QED BY <1>2, <1>3, <1>4, <1>5, <1>6, <1>7, <1>8, <1>9 DEF Next, HookStep

\* Every state is well typed; no location but that of a Loki unit is enabled.
THEOREM TypeCorrect == Spec => []TypeOK
  BY InitTypeOK, NextTypeOK, PTL DEF Spec

-----------------------------------------------------------------------------
(* What the log targets follow.  A unit's view of Loki lags behind the       *)
(* members; the events it has still to handle make up for the difference.    *)

\* Endpoints, given what the Loki units have published.
ReadyIn(off, V) == {x \in V : \A y \in V : RelationOf[y] = RelationOf[x] => off[y] # NoUrl}

\* Where unit u's view v of Loki unit x differs from the members m, it has been
\* told so in t, and of the event f that it retries it has seen its part.
Told(x, m, v, t, f) ==
    /\ x \in v \ m <=> About("departed", x) \in t
    /\ x \in m \ v <=> About("joined", x) \in t
    /\ f = About("joined", x) => x \in v
    /\ f = About("departed", x) => x \notin v

ToldInv == \A u \in Units, x \in Lokis : Told(x, members, view[u], todo[u], failed[u])

\* Only members publish.
OfferedInv == \A x \in Lokis \ members : offered[x] = NoUrl

\* Something that concerns the targets is left to handle.
Pending(v, c, t, f) ==
    \/ f # NoEvent \/ ~c \/ PebbleIsReady \in t
    \/ \E x \in v : About("changed", x) \in t \/ About("departed", x) \in t

\* The targets p are what the Loki units in v ask for, if any is ready.
Current(off, v, p) ==
    ReadyIn(off, v) # {} =>
        \A x \in Lokis : IF x \in ReadyIn(off, v) THEN p[x] = off[x] ELSE p[x] \notin Urls

CurrentInv == \A u \in Units : \/ Pending(view[u], connected[u], todo[u], failed[u])
                               \/ Current(offered, view[u], target[u])

\* Something that concerns relation r is left to handle.
RulesPending(r, v, t, f) ==
    \/ \E x \in Lokis, k \in {"joined", "changed", "departed"} : f = About(k, x) /\ RelationOf[x] = r
    \/ \E x \in v : RelationOf[x] = r /\ (About("changed", x) \in t \/ About("departed", x) \in t)

\* A relation that the leader finds ready has the alert rules, or is due.
RulesInv ==
    spent["leader"] = 0 => \A u \in Units : leader = u =>
        \A x \in ReadyIn(offered, view[u]) :
            RelationOf[x] \in published \/ RulesPending(RelationOf[x], view[u], todo[u], failed[u])

Inv == TypeOK /\ ToldInv /\ OfferedInv /\ CurrentInv /\ RulesInv

LEMMA EndpointsReady ==
    ASSUME NEW V \in SUBSET Lokis
    PROVE  Endpoints(V) = ReadyIn(offered, V)
  BY ConstantsAssumption DEF Endpoints, FetchEndpoints, ReadyIn

LEMMA InitInv == Init => Inv
<1> SUFFICES ASSUME Init PROVE Inv
  OBVIOUS
<1>1. TypeOK BY InitTypeOK
<1>2. ToldInv BY EventsDiffer DEF Init, ToldInv, Told
<1>3. OfferedInv BY DEF Init, OfferedInv
<1>4. CurrentInv /\ RulesInv BY DEF Init, CurrentInv, RulesInv, Pending, ReadyIn
<1>5. QED BY <1>1, <1>2, <1>3, <1>4 DEF Inv

\* What a hook of u does, whether it fails or not.
LEMMA Handled ==
    ASSUME TypeOK, NEW u \in Units, NEW e \in Event, Handle(u, e) \/ HandleFails(u, e)
    PROVE  /\ Deliverable(u, e)
           /\ view'[u] = Seen(u, e) /\ todo'[u] = todo[u] \ {e} /\ failed'[u] \in {NoEvent, e}
           /\ \A v \in Units \ {u} : /\ view'[v] = view[v] /\ todo'[v] = todo[v]
                                     /\ failed'[v] = failed[v] /\ target'[v] = target[v]
           /\ UNCHANGED <<leader, offered, members, connected>>
  BY DEF Handle, HandleFails, TypeOK

LEMMA OfferedStep == Inv /\ Next => OfferedInv'
<1> SUFFICES ASSUME Inv, Next PROVE OfferedInv'
  OBVIOUS
<1> USE DEF Inv, TypeOK, OfferedInv
<1>1. ASSUME NEW u \in Units, NEW e \in Event, Handle(u, e) \/ HandleFails(u, e)
      PROVE  OfferedInv'
  BY <1>1, Handled
<1>2. ASSUME NEW u \in Units, Restart(u) \/ PebbleUp(u) PROVE OfferedInv'
  BY <1>2 DEF Restart, PebbleUp
<1>3. ASSUME NEW u \in Units \cup {NoLeader}, LeaderMoves(u) PROVE OfferedInv'
  BY <1>3 DEF LeaderMoves
<1>4. ASSUME NEW x \in Lokis, Join(x) PROVE OfferedInv'
  BY <1>4 DEF Join
<1>5. ASSUME NEW x \in Lokis, Depart(x) PROVE OfferedInv'
  BY <1>5 DEF Depart
<1>6. ASSUME NEW x \in Lokis, NEW url \in Urls, Publish(x, url) PROVE OfferedInv'
  BY <1>6 DEF Publish
<1>7. QED BY <1>1, <1>2, <1>3, <1>4, <1>5, <1>6 DEF Next, HookStep

LEMMA ToldStep == Inv /\ Next => ToldInv'
<1> SUFFICES ASSUME Inv, Next PROVE ToldInv'
  OBVIOUS
<1>1. ASSUME NEW u \in Units, NEW e \in Event, Handle(u, e) \/ HandleFails(u, e)
      PROVE  ToldInv'
  <2> SUFFICES ASSUME NEW x \in Lokis
               PROVE  Told(x, members, Seen(u, e), todo[u] \ {e}, failed'[u])
    <3>1. /\ view'[u] = Seen(u, e) /\ todo'[u] = todo[u] \ {e} /\ members' = members
          /\ \A v \in Units \ {u} : view'[v] = view[v] /\ todo'[v] = todo[v] /\ failed'[v] = failed[v]
      BY <1>1, Handled DEF Inv
    <3>2. \A v \in Units \ {u}, x \in Lokis : Told(x, members', view'[v], todo'[v], failed'[v])
      BY <3>1 DEF Inv, ToldInv
    <3>3. QED BY <3>1, <3>2 DEF ToldInv
  <2>1. /\ Deliverable(u, e) /\ failed'[u] \in {NoEvent, e}
        /\ Told(x, members, view[u], todo[u], failed[u])
    BY <1>1, Handled DEF Inv, ToldInv
  <2>2. CASE e = PebbleIsReady
    <3>1. Seen(u, e) = view[u] BY <2>2, EventsDiffer DEF Seen
    <3>2. QED BY <2>1, <2>2, <3>1, EventsDiffer DEF Told
  <2>3. ASSUME NEW y \in Lokis, e = About("joined", y)
        PROVE  Told(x, members, Seen(u, e), todo[u] \ {e}, failed'[u])
    <3>1. Seen(u, e) = view[u] \cup {y} BY <2>3, EventsDiffer DEF Seen
    <3>2. QED BY <2>1, <2>3, <3>1, EventsDiffer DEF Told, Deliverable
  <2>4. ASSUME NEW y \in Lokis, e = About("departed", y)
        PROVE  Told(x, members, Seen(u, e), todo[u] \ {e}, failed'[u])
    <3>1. Seen(u, e) = view[u] \ {y} BY <2>4, EventsDiffer DEF Seen
    <3>2. QED BY <2>1, <2>4, <3>1, EventsDiffer DEF Told, Deliverable
  <2>5. ASSUME NEW y \in Lokis, e = About("changed", y)
        PROVE  Told(x, members, Seen(u, e), todo[u] \ {e}, failed'[u])
    <3>1. Seen(u, e) = view[u] BY <2>5, EventsDiffer DEF Seen
    <3>2. QED BY <2>1, <2>5, <3>1, EventsDiffer DEF Told
  <2>6. QED BY <2>2, <2>3, <2>4, <2>5, EventCases
<1>2. ASSUME NEW u \in Units, Restart(u) \/ PebbleUp(u) PROVE ToldInv'
  <2>1. UNCHANGED <<members, view, failed>> BY <1>2 DEF Restart, PebbleUp
  <2>2. \A v \in Units : todo'[v] \in {todo[v], todo[v] \cup {PebbleIsReady}}
    BY <1>2 DEF Restart, PebbleUp, Inv, TypeOK
  <2>3. QED BY <2>1, <2>2, EventsDiffer DEF Inv, ToldInv, Told
<1>3. ASSUME NEW u \in Units \cup {NoLeader}, LeaderMoves(u) PROVE ToldInv'
  BY <1>3 DEF LeaderMoves, Inv, ToldInv
<1>4. ASSUME NEW x \in Lokis, Join(x) PROVE ToldInv'
  BY <1>4, EventsDiffer DEF Join, Inv, ToldInv, Told, TypeOK
<1>5. ASSUME NEW x \in Lokis, Depart(x) PROVE ToldInv'
  BY <1>5, EventsDiffer DEF Depart, Inv, ToldInv, Told, TypeOK
<1>6. ASSUME NEW x \in Lokis, NEW url \in Urls, Publish(x, url) PROVE ToldInv'
  BY <1>6, EventsDiffer DEF Publish, Inv, ToldInv, Told, TypeOK
<1>7. QED BY <1>1, <1>2, <1>3, <1>4, <1>5, <1>6 DEF Next, HookStep

\* Steps of others, which leave the targets of u alone and lose no event that
\* concerns the Loki units it sees, keep u's targets current.
LEMMA CurrentKept ==
    ASSUME Inv, NEW u \in Units,
           view'[u] = view[u] /\ failed'[u] = failed[u],
           \A x \in view[u] : offered'[x] = offered[x] \/ About("changed", x) \in todo'[u]
                                                      \/ About("departed", x) \in todo'[u],
           \A x \in view[u] : About("changed", x) \in todo[u] =>
               About("changed", x) \in todo'[u] \/ About("departed", x) \in todo'[u],
           \A x \in view[u] : About("departed", x) \in todo[u] => About("departed", x) \in todo'[u],
           PebbleIsReady \in todo[u] => PebbleIsReady \in todo'[u],
           ~connected[u] => ~connected'[u] \/ PebbleIsReady \in todo'[u],
           target'[u] = target[u] \/ ~connected'[u]
    PROVE  \/ Pending(view'[u], connected'[u], todo'[u], failed'[u])
           \/ Current(offered', view'[u], target'[u])
<1>1. \/ Pending(view[u], connected[u], todo[u], failed[u])
      \/ Current(offered, view[u], target[u])
  BY DEF Inv, CurrentInv
<1>2. CASE Pending(view[u], connected[u], todo[u], failed[u])
  BY <1>2 DEF Pending
<1>3. CASE \E x \in view[u] : offered'[x] # offered[x]
  BY <1>3 DEF Pending
<1>4. ASSUME \A x \in view[u] : offered'[x] = offered[x], target'[u] = target[u],
             Current(offered, view[u], target[u])
      PROVE  Current(offered', view'[u], target'[u])
  <2>1. ReadyIn(offered', view[u]) = ReadyIn(offered, view[u])
    BY <1>4 DEF ReadyIn
  <2>2. \A x \in ReadyIn(offered, view[u]) : offered'[x] = offered[x]
    BY <1>4 DEF ReadyIn
  <2>3. QED BY <1>4, <2>1, <2>2 DEF Current
<1>5. QED BY <1>1, <1>2, <1>3, <1>4 DEF Pending

LEMMA CurrentStep == Inv /\ Next => CurrentInv'
<1> SUFFICES ASSUME Inv, Next, NEW v \in Units
             PROVE  \/ Pending(view'[v], connected'[v], todo'[v], failed'[v])
                    \/ Current(offered', view'[v], target'[v])
  BY DEF CurrentInv
<1> DEFINE Goal == \/ Pending(view'[v], connected'[v], todo'[v], failed'[v])
                   \/ Current(offered', view'[v], target'[v])
<1>1. ASSUME NEW u \in Units, NEW e \in Event, Handle(u, e) PROVE Goal
  <2>1. CASE u # v
    BY <1>1, <2>1, Handled, CurrentKept DEF Inv
  <2>2. CASE u = v /\ ~connected[v]
    BY <1>1, <2>2, Handled DEF Pending, Inv
  <2>3. CASE u = v /\ connected[v]
    <3> DEFINE active == Endpoints(Seen(v, e))
    <3>1. view'[v] = Seen(v, e) /\ offered' = offered
      BY <1>1, <2>3, Handled DEF Inv
    <3>2. active = ReadyIn(offered', view'[v]) /\ ReactsTo(e)
      BY <3>1, SeenTyped, EndpointsReady, EventCases DEF Inv, ReactsTo
    <3>3. CASE active = {} BY <3>2, <3>3 DEF Current
    <3>4. CASE active # {}
      <4>1. target'[v] = Updated(target[v], active)
        BY <1>1, <2>3, <3>2, <3>4 DEF Handle, Inv, TypeOK
      <4>2. QED BY <3>1, <3>2, <4>1, ConstantsAssumption DEF Updated, Current
    <3>5. QED BY <3>3, <3>4
  <2>4. QED BY <2>1, <2>2, <2>3 DEF Inv, TypeOK
<1>2. ASSUME NEW u \in Units, NEW e \in Event, HandleFails(u, e) PROVE Goal
  <2>1. CASE u # v
    BY <1>2, <2>1, Handled, CurrentKept DEF Inv
  <2>2. CASE u = v
    BY <1>2, <2>2, ConstantsAssumption DEF HandleFails, Pending, Inv, TypeOK
  <2>3. QED BY <2>1, <2>2
<1>3. ASSUME NEW u \in Units, Restart(u) \/ PebbleUp(u) PROVE Goal
  <2>1. /\ UNCHANGED <<view, failed, offered>>
        /\ \A x \in Lokis : \A k : About(k, x) \in todo[v] => About(k, x) \in todo'[v]
        /\ PebbleIsReady \in todo[v] => PebbleIsReady \in todo'[v]
    BY <1>3 DEF Restart, PebbleUp, Inv, TypeOK
  <2>2. ~connected[v] => ~connected'[v] \/ PebbleIsReady \in todo'[v]
    BY <1>3 DEF Restart, PebbleUp, Inv, TypeOK
  <2>3. target'[v] = target[v] \/ ~connected'[v]
    <3>1. CASE Restart(u) BY <3>1 DEF Restart, Inv, TypeOK
    <3>2. CASE PebbleUp(u) BY <3>2 DEF PebbleUp
    <3>3. QED BY <1>3, <3>1, <3>2
  <2>4. view[v] \subseteq Lokis BY DEF Inv, TypeOK
  <2>5. QED BY <2>1, <2>2, <2>3, <2>4, CurrentKept
<1>4. ASSUME NEW u \in Units \cup {NoLeader}, LeaderMoves(u) PROVE Goal
  BY <1>4, CurrentKept DEF LeaderMoves
<1>5. ASSUME NEW x \in Lokis, Join(x) PROVE Goal
  BY <1>5, CurrentKept DEF Join, Inv, TypeOK
<1>6. ASSUME NEW x \in Lokis, Depart(x) PROVE Goal
  <2>1. /\ UNCHANGED <<view, connected, target, failed>>
        /\ \A y \in Lokis \ {x} : offered'[y] = offered[y]
        /\ todo'[v] = (todo[v] \ {About("joined", x), About("changed", x)})
                        \cup (IF x \in view[v] THEN {About("departed", x)} ELSE {})
    BY <1>6 DEF Depart, Inv, TypeOK
  <2>2. view[v] \subseteq Lokis BY DEF Inv, TypeOK
  <2>3. PebbleIsReady \in todo[v] => PebbleIsReady \in todo'[v]
    BY <2>1, EventsDiffer
  <2>4. \A y \in view[v] : y # x => (About("changed", y) \in todo[v] => About("changed", y) \in todo'[v])
    BY <2>1, EventsDiffer
  <2>5. \A y \in view[v] : About("departed", y) \in todo[v] => About("departed", y) \in todo'[v]
    BY <2>1, EventsDiffer
  <2>6. x \in view[v] => About("departed", x) \in todo'[v]
    BY <2>1
  <2>7. QED BY <2>1, <2>2, <2>3, <2>4, <2>5, <2>6, CurrentKept
<1>7. ASSUME NEW x \in Lokis, NEW url \in Urls, Publish(x, url) PROVE Goal
  <2>1. /\ UNCHANGED <<view, connected, target, failed>>
        /\ \A y \in Lokis \ {x} : offered'[y] = offered[y]
        /\ todo'[v] = todo[v] \cup {About("changed", x)}
    BY <1>7 DEF Publish, Inv, TypeOK
  <2>2. view[v] \subseteq Lokis BY DEF Inv, TypeOK
  <2>3. QED BY <2>1, <2>2, CurrentKept
<1>8. QED BY <1>1, <1>2, <1>3, <1>4, <1>5, <1>6, <1>7 DEF Next, HookStep

\* Whether a Loki unit is ready depends on its own relation only.
LEMMA ReadyInRelation ==
    ASSUME NEW V \in SUBSET Lokis, NEW W \in SUBSET Lokis, NEW off, NEW off2,
           NEW x \in ReadyIn(off2, W),
           \A y \in Lokis : RelationOf[y] = RelationOf[x] =>
               (y \in V <=> y \in W) /\ (y \in V => off[y] = off2[y])
    PROVE  x \in ReadyIn(off, V)
  BY DEF ReadyIn

LEMMA RulesStep == Inv /\ Next => RulesInv'
<1> SUFFICES ASSUME Inv, Next, NEW v \in Units, spent'["leader"] = 0, leader' = v,
                    NEW x \in ReadyIn(offered', view'[v])
             PROVE  \/ RelationOf[x] \in published'
                    \/ RulesPending(RelationOf[x], view'[v], todo'[v], failed'[v])
  BY DEF RulesInv
<1> DEFINE r == RelationOf[x]
           Goal == r \in published' \/ RulesPending(r, view'[v], todo'[v], failed'[v])
<1>1. view[v] \in SUBSET Lokis /\ view'[v] \in SUBSET Lokis /\ x \in Lokis
  BY NextTypeOK DEF Inv, TypeOK, ReadyIn
\* It was ready before, and nothing that was due for its relation is lost.
<1>2. ASSUME leader = v, spent["leader"] = 0,
             \A y \in Lokis : RelationOf[y] = r =>
                 (y \in view[v] <=> y \in view'[v]) /\ (y \in view[v] => offered[y] = offered'[y]),
             r \in published => r \in published',
             RulesPending(r, view[v], todo[v], failed[v]) =>
                 RulesPending(r, view'[v], todo'[v], failed'[v])
      PROVE  Goal
  <2>1. x \in ReadyIn(offered, view[v]) BY <1>1, <1>2, ReadyInRelation
  <2>2. QED BY <1>2, <2>1 DEF Inv, RulesInv
<1>3. ASSUME NEW k \in EnvSteps, k # "leader", Spend(k) PROVE spent["leader"] = 0
  BY <1>3 DEF Spend, EnvSteps, Inv, TypeOK
<1>4. ASSUME NEW u \in Units, NEW e \in Event, Handle(u, e) \/ HandleFails(u, e) PROVE Goal
  <2>1. leader = v /\ spent["leader"] = 0
    BY <1>3, <1>4, Handled DEF Inv, Handle, HandleFails, EnvSteps
  <2>2. offered' = offered /\ published \subseteq published'
    BY <1>4 DEF Handle, HandleFails
  <2>3. CASE u # v
    <3>1. view'[v] = view[v] /\ todo'[v] = todo[v] /\ failed'[v] = failed[v]
      BY <1>4, <2>3, Handled DEF Inv
    <3>2. QED BY <1>2, <2>1, <2>2, <3>1
  <2>4. CASE u = v /\ e = PebbleIsReady
    <3>1. /\ view'[v] = view[v] /\ todo'[v] = todo[v] \ {PebbleIsReady}
          /\ failed[v] \in {NoEvent, PebbleIsReady}
      BY <1>4, <2>4, Handled, EventsDiffer DEF Inv, Seen, Deliverable
    <3>2. RulesPending(r, view[v], todo[v], failed[v]) =>
            RulesPending(r, view'[v], todo'[v], failed'[v])
      BY <1>1, <3>1, EventsDiffer DEF RulesPending
    <3>3. QED BY <1>2, <2>1, <2>2, <3>1, <3>2
  <2>5. ASSUME NEW y \in Lokis, NEW k \in {"joined", "changed", "departed"},
               u = v, e = About(k, y), RelationOf[y] # r
        PROVE  Goal
    <3>1. /\ view'[v] = Seen(v, e) /\ todo'[v] = todo[v] \ {About(k, y)}
          /\ failed[v] \in {NoEvent, About(k, y)}
      BY <1>4, <2>5, Handled DEF Inv, Deliverable
    <3>2. \A z \in Lokis \ {y} : z \in view'[v] <=> z \in view[v]
      <4>1. e.loki = y BY <2>5, EventsDiffer
      <4>2. QED BY <3>1, <4>1 DEF Seen
    <3>3. RulesPending(r, view[v], todo[v], failed[v]) =>
            RulesPending(r, view'[v], todo'[v], failed'[v])
      BY <1>1, <2>5, <3>1, <3>2, EventsDiffer DEF RulesPending
    <3>4. QED BY <1>2, <2>1, <2>2, <2>5, <3>2, <3>3
  <2>6. ASSUME NEW y \in Lokis, NEW k \in {"joined", "changed", "departed"},
               u = v, e = About(k, y), RelationOf[y] = r
        PROVE  Goal
    <3>1. CASE HandleFails(u, e)
      <4>1. failed'[v] = About(k, y) BY <2>6, <3>1 DEF HandleFails, Inv, TypeOK
      <4>2. QED BY <2>6, <4>1 DEF RulesPending
    <3>2. CASE Handle(u, e)
      <4>1. Endpoints(Seen(u, e)) = ReadyIn(offered, Seen(u, e))
        BY SeenTyped, EndpointsReady DEF Inv
      <4>2. view'[v] = Seen(u, e) BY <1>4, <2>6, Handled DEF Inv
      <4>3. Endpoints(Seen(u, e)) # {} /\ ReactsTo(e) /\ e.kind # "pebble-ready" /\ e.loki = y
        BY <2>2, <2>6, <4>1, <4>2, EventsDiffer DEF ReactsTo
      <4>4. QED BY <2>1, <2>6, <3>2, <4>3 DEF Handle
    <3>3. QED BY <1>4, <3>1, <3>2
  <2>7. QED BY <2>3, <2>4, <2>5, <2>6, EventCases
<1>5. ASSUME NEW u \in Units, Restart(u) \/ PebbleUp(u) PROVE Goal
  <2>1. /\ UNCHANGED <<leader, offered, view, published, failed>>
        /\ \A e : e \in todo[v] => e \in todo'[v]
    BY <1>5 DEF Restart, PebbleUp, Inv, TypeOK
  <2>2. spent["leader"] = 0 BY <1>3, <1>5 DEF Restart, PebbleUp, EnvSteps
  <2>3. QED BY <1>2, <2>1, <2>2 DEF RulesPending
<1>6. ASSUME NEW u \in Units \cup {NoLeader}, LeaderMoves(u) PROVE Goal
  <2>1. spent'["leader"] = spent["leader"] + 1 /\ spent["leader"] \in Nat
    BY <1>6 DEF LeaderMoves, Spend, EnvSteps, Inv, TypeOK
  <2>2. QED BY <2>1
<1>7. ASSUME NEW y \in Lokis, Join(y) PROVE Goal
  <2>1. UNCHANGED <<leader, offered, view, published, failed>> /\ \A e : e \in todo[v] => e \in todo'[v]
    BY <1>7 DEF Join, Inv, TypeOK
  <2>2. spent["leader"] = 0 BY <1>3, <1>7 DEF Join, EnvSteps
  <2>3. QED BY <1>2, <2>1, <2>2 DEF RulesPending
<1>8. ASSUME NEW y \in Lokis, NEW url \in Urls, Publish(y, url) PROVE Goal
  <2>1. /\ UNCHANGED <<leader, view, published, failed>>
        /\ todo'[v] = todo[v] \cup {About("changed", y)}
        /\ \A z \in Lokis \ {y} : offered'[z] = offered[z]
    BY <1>8 DEF Publish, Inv, TypeOK
  <2>2. spent["leader"] = 0 BY <1>3, <1>8 DEF Publish, EnvSteps
  <2>3. CASE y \in view[v] /\ RelationOf[y] = r
    BY <2>1, <2>3 DEF RulesPending
  <2>4. CASE ~(y \in view[v] /\ RelationOf[y] = r)
    BY <1>2, <2>1, <2>2, <2>4 DEF RulesPending
  <2>5. QED BY <2>3, <2>4
<1>9. ASSUME NEW y \in Lokis, Depart(y) PROVE Goal
  <2>1. /\ UNCHANGED <<leader, view, failed>>
        /\ todo'[v] = (todo[v] \ {About("joined", y), About("changed", y)})
                        \cup (IF y \in view[v] THEN {About("departed", y)} ELSE {})
        /\ \A z \in Lokis \ {y} : offered'[z] = offered[z]
        /\ offered'[y] = NoUrl
        /\ published' = {q \in published : \E z \in members \ {y} : RelationOf[z] = q}
    BY <1>9 DEF Depart, Inv, TypeOK
  <2>2. spent["leader"] = 0 BY <1>3, <1>9 DEF Depart, EnvSteps
  <2>3. x \in members \ {y}
    BY <1>1, <2>1 DEF ReadyIn, Inv, OfferedInv
  <2>4. CASE y \in view[v] /\ RelationOf[y] = r
    BY <2>1, <2>4 DEF RulesPending
  <2>5. CASE ~(y \in view[v] /\ RelationOf[y] = r)
    <3>1. RulesPending(r, view[v], todo[v], failed[v]) =>
            RulesPending(r, view'[v], todo'[v], failed'[v])
      BY <1>1, <2>1, <2>5, EventsDiffer DEF RulesPending
    <3>2. QED BY <1>2, <2>1, <2>2, <2>3, <2>5, <3>1
  <2>6. QED BY <2>4, <2>5
<1>10. QED BY <1>4, <1>5, <1>6, <1>7, <1>8, <1>9 DEF Next, HookStep

LEMMA NextInv == Inv /\ [Next]_vars => Inv'
<1>1. CASE UNCHANGED vars
  BY <1>1, NextTypeOK DEF vars, Inv, ToldInv, OfferedInv, CurrentInv, RulesInv
<1>2. CASE Next
  BY <1>2, NextTypeOK, ToldStep, OfferedStep, CurrentStep, RulesStep DEF Inv
<1>3. QED BY <1>1, <1>2

\* A unit that has nothing left to handle sees the members.
LEMMA QuietView ==
    ASSUME Inv, NEW u \in Units, Quiet(u)
    PROVE  /\ view[u] = members
           /\ ~Pending(view[u], connected[u], todo[u], failed[u])
           /\ \A r : ~RulesPending(r, view[u], todo[u], failed[u])
<1>1. \A x \in Lokis : x \in view[u] <=> x \in members
  BY DEF Inv, ToldInv, Told, Quiet
<1>2. QED BY <1>1, EventsDiffer DEF Inv, TypeOK, Quiet, Pending, RulesPending

\* A unit with nothing left to handle forwards to every Loki unit of the ready
\* relations, where it is now, and to no other, if there is one.
THEOREM ForwardingStaysCurrent == Spec => []ForwardingCurrent
<1>1. ASSUME Inv PROVE ForwardingCurrent
  <2> SUFFICES ASSUME NEW u \in Units, Quiet(u), Endpoints(members) # {}
               PROVE  /\ Enabled(u) = Endpoints(members)
                      /\ \A x \in Enabled(u) : target[u][x] = offered[x]
    BY DEF ForwardingCurrent
  <2>1. Current(offered, members, target[u]) /\ view[u] = members
    BY <1>1, QuietView DEF Inv, CurrentInv
  <2>2. members \in SUBSET Lokis /\ Endpoints(members) = ReadyIn(offered, members)
    BY <1>1, EndpointsReady DEF Inv, TypeOK
  <2>3. \A x \in Endpoints(members) : offered[x] \in Urls
    BY <1>1, <2>2, EndpointsOffered DEF Inv
  <2>4. QED BY <2>1, <2>2, <2>3 DEF Current, Enabled, ReadyIn
<1>2. QED BY <1>1, InitInv, NextInv, PTL DEF Spec

\* While leadership stays where it is, a leader with nothing left to handle has
\* given the charm's alert rules to every ready relation.
THEOREM RulesAreSent == Spec => []AlertRulesSent
<1>1. ASSUME Inv PROVE AlertRulesSent
  <2> SUFFICES ASSUME spent["leader"] = 0, leader \in Units, Quiet(leader),
                      NEW x \in Endpoints(members)
               PROVE  RelationOf[x] \in published
    BY DEF AlertRulesSent
  <2>1. x \in ReadyIn(offered, view[leader])
    BY <1>1, QuietView, EndpointsReady DEF Inv, TypeOK
  <2>2. QED BY <1>1, <2>1, QuietView DEF Inv, RulesInv
<1>2. QED BY <1>1, InitInv, NextInv, PTL DEF Spec
=============================================================================
