------------------------- MODULE MeshLibraries_proofs -------------------------
(* What TLAPS proves of MeshPolicies: for any number of units, any        *)
(* policies and relations, and however often the environment acts.         *)
EXTENDS Libraries, TLAPS

-----------------------------------------------------------------------------
(* MeshPolicies *)


TypeOK ==
    /\ leader \in access.Units
    /\ related \subseteq access.Relations
    /\ view \in [access.Units -> SUBSET access.Relations]
    /\ mesh \in BOOLEAN /\ due \in BOOLEAN
    /\ todo \in [access.Units -> SUBSET Access!Event]
    /\ used \in [Access!EnvSteps -> Nat]

\* Where unit u's view of relation r differs from what it is, u has been told.
ViewTold(u, r) ==
    /\ r \in related /\ r \notin view[u] <=> <<"created", r>> \in todo[u]
    /\ r \notin related /\ r \in view[u] <=> <<"broken", r>> \in todo[u]

\* As long as leadership has not moved and no cross-model data was withdrawn,
\* what is published is what the leader's view of its relations makes of the
\* data that is there, unless the leader has yet to see it or the mesh.
PublishedInv ==
    used["leader"] = 0 /\ used["withdraw"] = 0 =>
        /\ ~mesh => published = {}
        /\ mesh /\ {<<"cmr", Access!None>>, <<"mesh", Access!None>>} \cap todo[leader] = {} =>
             published = Access!MeshPoliciesFor(view[leader])

\* What the beacon does not have to look at is in the cluster.
ClusterInv == ~due => cluster = Access!Reconciled(published)

Inv ==
    /\ TypeOK
    /\ \A u \in access.Units : \A r \in access.Relations : ViewTold(u, r)
    /\ PublishedInv /\ ClusterInv

\* Events of different kinds, or of different relations, differ.
LEMMA EventsDiffer ==
    ASSUME NEW r, NEW q
    PROVE  /\ <<"created", r>> # <<"broken", q>>
           /\ r # q => <<"created", r>> # <<"created", q>> /\ <<"broken", r>> # <<"broken", q>>
           /\ <<"created", r>> \notin {<<"cmr", Access!None>>, <<"mesh", Access!None>>}
           /\ <<"broken", r>> \notin {<<"cmr", Access!None>>, <<"mesh", Access!None>>}
           /\ <<"cmr", Access!None>> # <<"mesh", Access!None>>
  OBVIOUS

LEMMA EventKinds ==
    /\ \A e \in Access!Event : \/ \E r \in access.Relations : e = <<"created", r>> \/ e = <<"broken", r>>
                               \/ e \in {<<"cmr", Access!None>>, <<"mesh", Access!None>>}
    /\ \A r \in access.Relations : <<"created", r>> \in Access!Event /\ <<"broken", r>> \in Access!Event
    /\ <<"cmr", Access!None>> \in Access!Event /\ <<"mesh", Access!None>> \in Access!Event
  BY DEF Access!Event

LEMMA SpendType ==
    ASSUME TypeOK, NEW k \in Access!EnvSteps, Access!Spend(k)
    PROVE  /\ used' \in [Access!EnvSteps -> Nat] /\ used'[k] # 0
           /\ \A j \in Access!EnvSteps : used'[j] = 0 => used[j] = 0
  BY DEF TypeOK, Access!Spend

\* The steps of the environment that concern no unit's hooks.
LEMMA ViewKept ==
    ASSUME NEW u \in access.Units, NEW r \in access.Relations, ViewTold(u, r),
           r \in related' <=> r \in related, r \in view'[u] <=> r \in view[u],
           <<"created", r>> \in todo'[u] <=> <<"created", r>> \in todo[u],
           <<"broken", r>> \in todo'[u] <=> <<"broken", r>> \in todo[u]
    PROVE  ViewTold(u, r)'
  BY DEF ViewTold

\* What the hook of a unit does.
LEMMA HandleStep ==
    ASSUME Inv, NEW u \in access.Units, NEW e \in Access!Event, Access!Handle(u, e)
    PROVE  Inv'
<1> USE DEF Access!consumer, Access!beacon
<1>1. /\ TypeOK /\ e \in todo[u]
      /\ todo' = [todo EXCEPT ![u] = @ \ {e}]
      /\ UNCHANGED <<leader, related, cmr, mesh, crd, cluster, used>>
  BY DEF Inv, Access!Handle
<1>2. /\ todo'[u] = todo[u] \ {e}
      /\ \A v \in access.Units \ {u} : todo'[v] = todo[v] /\ view'[v] = view[v]
      /\ \A r \in access.Relations : /\ e = <<"created", r>> => view'[u] = view[u] \cup {r}
                                     /\ e = <<"broken", r>> => view'[u] = view[u] \ {r}
      /\ e \in {<<"cmr", Access!None>>, <<"mesh", Access!None>>} => view'[u] = view[u]
  <2>1. view' = [view EXCEPT ![u] = CASE e[1] = "created" -> view[u] \cup {e[2]}
                                     [] e[1] = "broken" -> view[u] \ {e[2]}
                                     [] OTHER -> view[u]]
    BY DEF Access!Handle
  <2>2. view'[u] = CASE e[1] = "created" -> view[u] \cup {e[2]}
                     [] e[1] = "broken" -> view[u] \ {e[2]}
                     [] OTHER -> view[u]
    BY <1>1, <2>1 DEF TypeOK
  <2>3. QED BY <1>1, <2>1, <2>2 DEF TypeOK
<1>3. TypeOK'
  <2>1. view'[u] \subseteq access.Relations
    BY <1>1, <1>2, EventKinds DEF TypeOK
  <2>2. view' \in [access.Units -> SUBSET access.Relations]
    BY <1>1, <2>1 DEF Access!Handle, TypeOK
  <2>3. QED BY <1>1, <2>2 DEF Access!Handle, TypeOK
<1>4. ASSUME NEW v \in access.Units, NEW r \in access.Relations PROVE ViewTold(v, r)'
  <2>1. ViewTold(v, r) BY DEF Inv
  <2>2. CASE v # u BY <1>1, <1>2, <2>1, <2>2, ViewKept
  <2>3. CASE v = u /\ e = <<"created", r>>
    BY <1>1, <1>2, <2>1, <2>3, EventsDiffer DEF ViewTold
  <2>4. CASE v = u /\ e = <<"broken", r>>
    BY <1>1, <1>2, <2>1, <2>4, EventsDiffer DEF ViewTold
  <2>5. CASE v = u /\ e \notin {<<"created", r>>, <<"broken", r>>}
    <3>1. r \in view'[u] <=> r \in view[u]
      <4>1. CASE e \in {<<"cmr", Access!None>>, <<"mesh", Access!None>>} BY <1>2, <4>1
      <4>2. ASSUME NEW q \in access.Relations \ {r}, e = <<"created", q>> \/ e = <<"broken", q>>
            PROVE  r \in view'[u] <=> r \in view[u]
        BY <1>2, <4>2
      <4>3. QED BY <2>5, <4>1, <4>2, EventKinds
    <3>2. QED BY <1>1, <1>2, <2>1, <2>5, <3>1, ViewKept
  <2>6. QED BY <2>2, <2>3, <2>4, <2>5
<1>5. PublishedInv'
  <2> SUFFICES ASSUME used["leader"] = 0, used["withdraw"] = 0
               PROVE  /\ ~mesh => published' = {}
                      /\ mesh /\ {<<"cmr", Access!None>>, <<"mesh", Access!None>>} \cap todo'[leader] = {} =>
                           published' = Access!MeshPoliciesFor(view[leader])'
    BY <1>1 DEF PublishedInv
  <2>1. ~mesh => published' = {}
    BY <1>1 DEF Access!Handle, Inv, PublishedInv
  <2>2. CASE leader = u
    <3>1. Access!Observes(e)
      BY EventKinds DEF Access!Observes
    <3>2. mesh => published' = Access!MeshPoliciesFor(view'[u])
      BY <2>2, <3>1 DEF Access!Handle
    <3>3. Access!MeshPoliciesFor(view[leader])' = Access!MeshPoliciesFor(view'[u])
      BY <1>1, <2>2 DEF Access!MeshPoliciesFor, Access!MeshPolicy, Access!Source
    <3>4. QED BY <2>1, <3>2, <3>3
  <2>3. CASE leader # u
    <3>1. published' = published BY <2>3 DEF Access!Handle
    <3>2. todo'[leader] = todo[leader] /\ view'[leader] = view[leader]
      BY <1>1, <1>2, <2>3 DEF TypeOK
    <3>3. Access!MeshPoliciesFor(view[leader])' = Access!MeshPoliciesFor(view[leader])
      BY <1>1, <3>2 DEF Access!MeshPoliciesFor, Access!MeshPolicy, Access!Source
    <3>4. QED BY <2>1, <3>1, <3>2, <3>3 DEF Inv, PublishedInv
  <2>4. QED BY <2>2, <2>3
<1>6. ClusterInv'
  <2>1. ~due' => ~due /\ published' = published BY DEF Access!Handle
  <2>2. published' = published => Access!Reconciled(published)' = Access!Reconciled(published)
    BY DEF Access!Reconciled
  <2>3. QED BY <1>1, <2>1, <2>2 DEF Inv, ClusterInv
<1>7. QED BY <1>3, <1>4, <1>5, <1>6 DEF Inv

\* A step that leaves the policies, or what they are made of, to the leader.
LEMMA PublishedKept ==
    ASSUME Inv, used' \in [Access!EnvSteps -> Nat],
           \A k \in Access!EnvSteps : used'[k] = 0 => used[k] = 0,
           UNCHANGED <<leader, view, mesh, published>>,
           cmr' = cmr \/ used'["withdraw"] # 0 \/ <<"cmr", Access!None>> \in todo'[leader],
           \A e \in {<<"cmr", Access!None>>, <<"mesh", Access!None>>} : e \in todo[leader] => e \in todo'[leader]
    PROVE  PublishedInv'
<1> SUFFICES ASSUME used'["leader"] = 0, used'["withdraw"] = 0
             PROVE  /\ ~mesh => published = {}
                    /\ mesh /\ {<<"cmr", Access!None>>, <<"mesh", Access!None>>} \cap todo'[leader] = {} =>
                         published = Access!MeshPoliciesFor(view[leader])'
  BY DEF PublishedInv
<1>1. used["leader"] = 0 /\ used["withdraw"] = 0
  BY DEF Access!EnvSteps
<1>2. ~mesh => published = {}
  BY <1>1 DEF Inv, PublishedInv
<1>3. ASSUME mesh, {<<"cmr", Access!None>>, <<"mesh", Access!None>>} \cap todo'[leader] = {}
      PROVE  published = Access!MeshPoliciesFor(view[leader])'
  <2>1. published = Access!MeshPoliciesFor(view[leader])
    BY <1>1, <1>3 DEF Inv, PublishedInv
  <2>2. cmr' = cmr BY <1>3
  <2>3. QED BY <2>1, <2>2 DEF Access!MeshPoliciesFor, Access!MeshPolicy, Access!Source
<1>4. QED BY <1>2, <1>3

LEMMA EnvironmentStep ==
    ASSUME Inv, [Access!Next]_(Access!vars), \A u \in access.Units, e \in Access!Event : ~Access!Handle(u, e)
    PROVE  Inv'
<1> USE DEF Access!consumer, Access!beacon
<1>1. TypeOK BY DEF Inv
<1>2. ASSUME UNCHANGED <<leader, view, mesh, published, due, cluster>>, TypeOK',
             \A k \in Access!EnvSteps : used'[k] = 0 => used[k] = 0,
             cmr' = cmr \/ used'["withdraw"] # 0 \/ <<"cmr", Access!None>> \in todo'[leader],
             \A e \in {<<"cmr", Access!None>>, <<"mesh", Access!None>>} :
                e \in todo[leader] => e \in todo'[leader],
             \A u \in access.Units, r \in access.Relations : ViewTold(u, r)'
      PROVE  Inv'
  <2>1. PublishedInv' BY <1>2, PublishedKept DEF TypeOK
  <2>2. ClusterInv' BY <1>2 DEF Inv, ClusterInv, Access!Reconciled
  <2>3. QED BY <1>2, <2>1, <2>2 DEF Inv
<1>3. ASSUME UNCHANGED <<related, view>>,
             \A u \in access.Units, r \in access.Relations :
                /\ <<"created", r>> \in todo'[u] <=> <<"created", r>> \in todo[u]
                /\ <<"broken", r>> \in todo'[u] <=> <<"broken", r>> \in todo[u]
      PROVE  \A u \in access.Units, r \in access.Relations : ViewTold(u, r)'
  BY <1>3, ViewKept DEF Inv
<1>4. ASSUME NEW r \in access.Relations, Access!Relate(r) PROVE Inv'
  <2>1. /\ \A u \in access.Units : todo'[u] = todo[u] \cup {<<"created", r>>}
        /\ \A k \in Access!EnvSteps : used'[k] = 0 => used[k] = 0
        /\ used' \in [Access!EnvSteps -> Nat]
        /\ r \notin related /\ related' = related \cup {r} /\ view' = view
        /\ \A u \in access.Units : r \notin view[u]
    BY <1>1, <1>4, SpendType DEF Access!Relate, Access!Queue, Access!EnvSteps
  <2>2. TypeOK' BY <1>1, <1>4, <2>1, EventKinds DEF Access!Relate, Access!Queue, TypeOK
  <2>3. ASSUME NEW u \in access.Units, NEW q \in access.Relations PROVE ViewTold(u, q)'
    <3>1. ViewTold(u, q) BY DEF Inv
    <3>2. CASE q = r BY <2>1, <3>1, <3>2, EventsDiffer DEF ViewTold
    <3>3. CASE q # r BY <2>1, <3>1, <3>3, EventsDiffer, ViewKept
    <3>4. QED BY <3>2, <3>3
  <2>4. QED BY <1>1, <1>2, <1>4, <2>1, <2>2, <2>3, EventsDiffer DEF Access!Relate, TypeOK
<1>5. ASSUME NEW r \in access.Relations, Access!Break(r) PROVE Inv'
  <2>1. /\ \A u \in access.Units : todo'[u] = (todo[u] \ {<<"created", r>>})
                                      \cup IF r \in view[u] THEN {<<"broken", r>>} ELSE {}
        /\ \A k \in Access!EnvSteps : used'[k] = 0 => used[k] = 0
        /\ used' \in [Access!EnvSteps -> Nat]
        /\ r \in related /\ related' = related \ {r} /\ view' = view
    BY <1>1, <1>5, SpendType DEF Access!Break, Access!EnvSteps
  <2>2. TypeOK'
    <3>1. todo' \in [access.Units -> SUBSET Access!Event]
      BY <1>1, <1>5, EventKinds DEF Access!Break, TypeOK
    <3>2. QED BY <1>1, <1>5, <2>1, <3>1 DEF Access!Break, TypeOK
  <2>3. ASSUME NEW u \in access.Units, NEW q \in access.Relations PROVE ViewTold(u, q)'
    <3>1. ViewTold(u, q) BY DEF Inv
    <3>2. CASE q = r BY <2>1, <3>1, <3>2, EventsDiffer DEF ViewTold
    <3>3. CASE q # r BY <2>1, <3>1, <3>3, EventsDiffer, ViewKept
    <3>4. QED BY <3>2, <3>3
  <2>4. QED BY <1>1, <1>2, <1>5, <2>1, <2>2, <2>3, EventsDiffer DEF Access!Break, TypeOK
<1>6. ASSUME NEW a \in Access!Apps, Access!SendCmrData(a) PROVE Inv'
  <2>1. /\ \A u \in access.Units : todo'[u] = todo[u] \cup {<<"cmr", Access!None>>}
        /\ \A k \in Access!EnvSteps : used'[k] = 0 => used[k] = 0
        /\ used' \in [Access!EnvSteps -> Nat]
    BY <1>1, <1>6, SpendType DEF Access!SendCmrData, Access!Queue, Access!EnvSteps
  <2>2. TypeOK' BY <1>1, <1>6, <2>1, EventKinds DEF Access!SendCmrData, Access!Queue, TypeOK
  <2>3. \A u \in access.Units, r \in access.Relations : ViewTold(u, r)'
    BY <1>3, <1>6, <2>1, EventsDiffer DEF Access!SendCmrData
  <2>4. QED BY <1>1, <1>2, <1>6, <2>1, <2>2, <2>3 DEF Access!SendCmrData, TypeOK
<1>7. ASSUME NEW a \in Access!Apps, Access!WithdrawCmr(a) PROVE Inv'
  <2>1. /\ used'["withdraw"] # 0 /\ used' \in [Access!EnvSteps -> Nat]
        /\ \A k \in Access!EnvSteps : used'[k] = 0 => used[k] = 0
    BY <1>1, <1>7, SpendType DEF Access!WithdrawCmr, Access!EnvSteps
  <2>2. TypeOK' BY <1>1, <1>7, <2>1 DEF Access!WithdrawCmr, TypeOK
  <2>3. QED BY <1>2, <1>3, <1>7, <2>1, <2>2 DEF Access!WithdrawCmr
<1>8. CASE Access!JoinMesh
  <2>1. /\ \A u \in access.Units : todo'[u] = todo[u] \cup {<<"mesh", Access!None>>}
        /\ \A k \in Access!EnvSteps : used'[k] = 0 => used[k] = 0
        /\ used' \in [Access!EnvSteps -> Nat]
    BY <1>1, <1>8, SpendType DEF Access!JoinMesh, Access!Queue, Access!EnvSteps
  <2>2. TypeOK' BY <1>1, <1>8, <2>1, EventKinds DEF Access!JoinMesh, Access!Queue, TypeOK
  <2>3. \A u \in access.Units, r \in access.Relations : ViewTold(u, r)'
    BY <1>3, <1>8, <2>1, EventsDiffer DEF Access!JoinMesh
  <2>4. PublishedInv'
    BY <1>1, <1>8, <2>1 DEF Access!JoinMesh, PublishedInv, TypeOK
  <2>5. ClusterInv' BY <1>8 DEF Access!JoinMesh, Inv, ClusterInv, Access!Reconciled
  <2>6. QED BY <2>2, <2>3, <2>4, <2>5 DEF Inv
<1>9. CASE Access!LeaveMesh
  <2>1. /\ \A u \in access.Units : todo'[u] = todo[u] \ {<<"mesh", Access!None>>}
        /\ used' \in [Access!EnvSteps -> Nat]
    BY <1>1, <1>9, SpendType DEF Access!LeaveMesh, Access!EnvSteps, TypeOK
  <2>2. TypeOK' BY <1>1, <1>9, <2>1 DEF Access!LeaveMesh, TypeOK
  <2>3. \A u \in access.Units, r \in access.Relations : ViewTold(u, r)'
    BY <1>3, <1>9, <2>1, EventsDiffer DEF Access!LeaveMesh
  <2>4. PublishedInv' /\ ClusterInv'
    BY <1>9 DEF Access!LeaveMesh, PublishedInv, ClusterInv
  <2>5. QED BY <2>2, <2>3, <2>4 DEF Inv
<1>10. ASSUME NEW u \in access.Units, Access!LeaderMoves(u) PROVE Inv'
  <2>1. used'["leader"] # 0 /\ used' \in [Access!EnvSteps -> Nat]
    BY <1>1, <1>10, SpendType DEF Access!LeaderMoves, Access!EnvSteps
  <2>2. TypeOK' BY <1>1, <1>10, <2>1 DEF Access!LeaderMoves, TypeOK
  <2>3. \A v \in access.Units, r \in access.Relations : ViewTold(v, r)'
    BY <1>3, <1>10 DEF Access!LeaderMoves
  <2>4. PublishedInv' BY <2>1 DEF PublishedInv
  <2>5. ClusterInv' BY <1>10 DEF Access!LeaderMoves, Inv, ClusterInv, Access!Reconciled
  <2>6. QED BY <2>2, <2>3, <2>4, <2>5 DEF Inv
<1>11. CASE Access!InstallCrd \/ Access!Reconcile \/ Access!ReconcileFails
  <2>1. used' \in [Access!EnvSteps -> Nat] /\ \A k \in Access!EnvSteps : used'[k] = 0 => used[k] = 0
    BY <1>1, <1>11, SpendType
       DEF Access!InstallCrd, Access!Reconcile, Access!ReconcileFails, Access!EnvSteps, TypeOK
  <2>2. TypeOK'
    BY <1>1, <1>11, <2>1 DEF Access!InstallCrd, Access!Reconcile, Access!ReconcileFails, TypeOK
  <2>3. \A v \in access.Units, r \in access.Relations : ViewTold(v, r)'
    BY <1>3, <1>11 DEF Access!InstallCrd, Access!Reconcile, Access!ReconcileFails
  <2>4. PublishedInv'
    BY <1>11, <2>1, PublishedKept DEF Access!InstallCrd, Access!Reconcile, Access!ReconcileFails
  <2>5. ClusterInv'
    BY <1>11
       DEF Access!InstallCrd, Access!Reconcile, Access!ReconcileFails, Inv, ClusterInv,
       Access!Reconciled
  <2>6. QED BY <2>2, <2>3, <2>4, <2>5 DEF Inv
<1>12. CASE UNCHANGED Access!vars
  <2>1. TypeOK' BY <1>1, <1>12 DEF Access!vars, TypeOK
  <2>2. \A v \in access.Units, r \in access.Relations : ViewTold(v, r)'
    BY <1>3, <1>12 DEF Access!vars
  <2>3. QED BY <1>2, <1>12, <2>1, <2>2 DEF Access!vars
<1>13. QED
  BY <1>4, <1>5, <1>6, <1>7, <1>8, <1>9, <1>10, <1>11, <1>12 DEF Access!Next

LEMMA InvHolds == ASSUME access.FirstLeader \in access.Units PROVE Access!Spec => []Inv
<1>1. Access!Init => Inv
  <2> SUFFICES ASSUME Access!Init PROVE Inv
    OBVIOUS
  <2>1. TypeOK BY DEF Access!Init, TypeOK
  <2>2. \A u \in access.Units, r \in access.Relations : ViewTold(u, r) BY DEF Access!Init, ViewTold
  <2>3. PublishedInv /\ ClusterInv BY DEF Access!Init, PublishedInv, ClusterInv, Access!Reconciled
  <2>4. QED BY <2>1, <2>2, <2>3 DEF Inv
<1>2. Inv /\ [Access!Next]_(Access!vars) => Inv'
  BY HandleStep, EnvironmentStep
<1>3. QED BY <1>1, <1>2, PTL DEF Access!Spec

-----------------------------------------------------------------------------
\* Whom a policy lets in, and where to.
Grant(q) ==
    <<Access!Source(access.AppOf[q[2]]),
      IF q[1].type = "unit" THEN <<"pods", access.This>>
      ELSE <<"service", IF q[1].service = Access!None THEN access.This ELSE q[1].service>>>>

LEMMA Admitted ==
    ASSUME NEW rs
    PROVE  {<<o.principal, o.selects>> : o \in Access!Reconciled(Access!MeshPoliciesFor(rs))} =
             {Grant(q) : q \in Access!Grants(rs)}
<1> DEFINE Object(q) == Access!Resource(Access!MeshPolicy(q[1], access.AppOf[q[2]]))
<1>1. ASSUME NEW q PROVE <<Object(q).principal, Object(q).selects>> = Grant(q)
  BY DEF Access!Resource, Access!MeshPolicy, Grant
<1>2. Access!Reconciled(Access!MeshPoliciesFor(rs)) = {Object(q) : q \in Access!Grants(rs)}
  BY DEF Access!Reconciled, Access!MeshPoliciesFor
<1> HIDE DEF Object
<1>3. {<<o.principal, o.selects>> : o \in {Object(q) : q \in Access!Grants(rs)}} =
        {Grant(q) : q \in Access!Grants(rs)}
  BY <1>1
<1>4. QED BY <1>2, <1>3

\* With all handled, exactly the applications that are related may reach the
\* pods and the service of this one, each under its own identity: for any
\* policies and relations, any number of units and of failing reconciliations,
\* as long as the leader stays and no cross-model data is withdrawn.
THEOREM AccessStaysCurrent == ASSUME access.FirstLeader \in access.Units
                              PROVE Access!Spec => []Access!AccessCurrent
<1>1. Inv => Access!AccessCurrent
  <2> SUFFICES ASSUME Inv, Access!Quiet, used["leader"] = 0, used["withdraw"] = 0
               PROVE  {<<o.principal, o.selects>> : o \in cluster} =
                        IF ~mesh THEN {} ELSE {Grant(q) : q \in Access!Grants(related)}
    BY DEF Access!AccessCurrent, Grant, Access!Grants, Access!Source
  <2>1. cluster = Access!Reconciled(published)
    BY DEF Inv, ClusterInv, Access!Quiet
  <2>2. view[leader] = related
    BY DEF Inv, ViewTold, TypeOK, Access!Quiet
  <2>3. published = IF mesh THEN Access!MeshPoliciesFor(related) ELSE {}
    BY <2>2 DEF Inv, PublishedInv, Access!Quiet
  <2>4. CASE mesh BY <2>1, <2>3, <2>4, Admitted
  <2>5. CASE ~mesh BY <2>1, <2>3, <2>5 DEF Access!Reconciled
  <2>6. QED BY <2>4, <2>5
<1>2. QED BY <1>1, InvHolds, PTL

-----------------------------------------------------------------------------
(* Of Libraries, in every behaviour of which one of the modules runs *)

\* What runs is MeshPolicies all along, or never.
LEMMA AccessRuns == Spec => []~(library = "policies") \/ Access!Spec
<1>1. library = "policies" /\ Init => Access!Init
  BY DEF Init
<1>2. library = "policies" /\ [Next]_vars => [Access!Next]_(Access!vars)
  BY DEF Next, vars, ofAccess, Access!vars, Access!consumer, Access!beacon
<1>3. library = "policies" /\ [Next]_vars => (library = "policies")'
  BY DEF Next, vars
<1>4. ~(library = "policies") /\ [Next]_vars => (~(library = "policies"))'
  BY DEF Next, vars
<1>5. QED
  BY <1>1, <1>2, <1>3, <1>4, PTL DEF Spec, Access!Spec

\* Once the hooks have run, the mesh admits the related applications, each under
\* its own identity and across models as well, and no others, as long as the
\* leader stays and no cross-model data is withdrawn.
THEOREM LibrariesAccessCurrent == Spec => []AccessCurrent
<1>1. Access!Spec => []Access!AccessCurrent
  BY AccessStaysCurrent, ConstantsAssumption
<1>2. QED
  BY <1>1, AccessRuns, PTL DEF AccessCurrent

-----------------------------------------------------------------------------
(* MeshLabels, whose theorems MeshLabels_proofs has: the constants and      *)
(* variables of Membership are those of that module's instance.             *)

Alone == INSTANCE MeshLabels_proofs WITH
    Units <- labels.Units, Labels <- labels.Labels,
    Foreign <- labels.Foreign, Limit <- labels.Limit

LEMMA AloneStarts == Membership!Init => Alone!Init
BY DEF Membership!Init, Alone!Init, Membership!Objects, Alone!Objects,
       Membership!EnvSteps, Alone!EnvSteps

LEMMA AloneSteps ==
    [Membership!Next]_(Membership!vars) => [Alone!Next]_(Alone!vars)
BY Zenon DEF Membership!Next, Alone!Next, Membership!vars, Alone!vars,
   Membership!juju, Alone!juju, Membership!kube, Alone!kube,
   Membership!call, Alone!call, Membership!HookStep, Alone!HookStep,
   Membership!HookFails, Alone!HookFails,
   Membership!LeaderMoves, Alone!LeaderMoves,
   Membership!Relate, Alone!Relate, Membership!Announce, Alone!Announce,
   Membership!Break, Alone!Break, Membership!Gone, Alone!Gone,
   Membership!Spend, Alone!Spend, Membership!Handle, Alone!Handle,
   Membership!Deliverable, Alone!Deliverable,
   Membership!WantedLabels, Alone!WantedLabels,
   Membership!GetObjects, Alone!GetObjects, Membership!GetMap, Alone!GetMap,
   Membership!CreateMap, Alone!CreateMap,
   Membership!Goes, Alone!Goes, Membership!Objects, Alone!Objects,
   Membership!Forgotten, Alone!Forgotten, Membership!Patch, Alone!Patch,
   Membership!PatchConfigMap, Alone!PatchConfigMap,
   Membership!PatchStatefulSet, Alone!PatchStatefulSet,
   Membership!PatchService, Alone!PatchService,
   Membership!DeleteMap, Alone!DeleteMap, Membership!Conflict, Alone!Conflict

\* A unit that is alone, and whose calls succeed, leaves on the StatefulSet and
\* the Service the labels asked for, and no others of those it manages.
THEOREM LibrariesQuietLabels ==
    ASSUME NEW w, labels.Units = {w}, labels.Limit["fault"] = 0
    PROVE  Spec => []QuietLabels
<1>1. library = "labels" /\ Init => Alone!Init
  BY AloneStarts DEF Init
<1>2. library = "labels" /\ [Next]_vars => [Alone!Next]_(Alone!vars)
  <2>1. library = "labels" /\ [Next]_vars => [Membership!Next]_(Membership!vars)
    BY DEF Next, vars, ofLabels, Membership!vars, Membership!juju,
           Membership!kube, Membership!call
  <2>2. QED BY <2>1, AloneSteps
<1>3. library = "labels" /\ [Next]_vars => (library = "labels")'
  BY DEF Next, vars
<1>4. ~(library = "labels") /\ [Next]_vars => (~(library = "labels"))'
  BY DEF Next, vars
<1>5. Alone!Spec => []Alone!QuietLabels
  BY Alone!OneUnitQuiet, ConstantsAssumption DEF Alone!EnvSteps, Membership!EnvSteps
<1>6. Alone!QuietLabels => Membership!QuietLabels
  BY DEF Alone!QuietLabels, Membership!QuietLabels, Alone!Quiet, Membership!Quiet,
         Alone!Workload, Membership!Workload
<1>7. QED
  BY <1>1, <1>2, <1>3, <1>4, <1>5, <1>6, PTL DEF Spec, Alone!Spec, QuietLabels

=============================================================================
