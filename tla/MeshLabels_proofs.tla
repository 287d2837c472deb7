-------------------------- MODULE MeshLabels_proofs --------------------------
(* What TLAPS proves of the membership labels: for any units and labels that *)
(* foreign labels survive, and for a single unit whose calls succeed that    *)
(* the objects end up with the labels that are asked for.                    *)
EXTENDS MeshLabels, TLAPS

\* The initial state is well typed.
LEMMA InitTypeOK == Init => TypeOK
<1> SUFFICES ASSUME Init PROVE TypeOK
  OBVIOUS
<1>1. /\ keys \in [Objects -> SUBSET (Labels \cup Foreign)]
      /\ keys["configmap"] \subseteq Labels
      /\ version \in [Objects -> Nat]
  BY DEF Init, Objects
<1>2. /\ pc \in [Units -> Steps] /\ ev \in [Units -> {"changed", "broken"}]
      /\ read \in [Units -> [Objects -> Nat]]
      /\ spent \in [EnvSteps -> Nat]
  BY DEF Init, Steps
<1>3. /\ todo \in [Units -> SUBSET {"changed", "broken"}]
      /\ want \in [Units -> SUBSET Labels] /\ drop \in [Units -> SUBSET Labels]
  BY DEF Init
<1>4. QED BY <1>1, <1>2, <1>3 DEF Init, TypeOK

\* So is what a hook step leaves behind.
LEMMA HookStepTypeOK ==
    ASSUME TypeOK, NEW u \in Units, HookStep(u)
    PROVE  TypeOK'
<1> USE DEF juju, kube, call, TypeOK, Objects, Steps, Goes
<1>1. ASSUME NEW e \in {"changed", "broken"}, Handle(u, e) PROVE TypeOK'
  BY <1>1 DEF Handle, WantedLabels
<1>2. CASE GetObjects(u) BY <1>2 DEF GetObjects
<1>3. CASE GetMap(u)
  <2>1. Forgotten(u) \in SUBSET Labels BY DEF Forgotten
  <2>2. read' \in [Units -> [Objects -> Nat]] BY <1>3 DEF GetMap
  <2>3. QED BY <1>3, <2>1, <2>2 DEF GetMap
<1>11. CASE CreateMap(u) BY <1>11 DEF CreateMap
<1>4. ASSUME NEW o \in Objects, NEW next \in Steps, Patch(u, o, next) PROVE TypeOK'
  <2>1. /\ keys' \in [Objects -> SUBSET (Labels \cup Foreign)]
        /\ keys'["configmap"] \subseteq Labels
    BY <1>4 DEF Patch
  <2>2. version' \in [Objects -> Nat] BY <1>4 DEF Patch
  <2>3. QED BY <1>4, <2>1, <2>2 DEF Patch
<1>5. CASE PatchConfigMap(u) BY <1>4, <1>5 DEF PatchConfigMap
<1>6. CASE PatchStatefulSet(u) BY <1>4, <1>6 DEF PatchStatefulSet
<1>7. CASE PatchService(u) BY <1>4, <1>7 DEF PatchService
<1>8. CASE DeleteMap(u) BY <1>8 DEF DeleteMap
<1>9. CASE Conflict(u) BY <1>9 DEF Conflict
<1>12. QED BY <1>1, <1>2, <1>3, <1>5, <1>6, <1>7, <1>8, <1>9, <1>11 DEF HookStep

\* So is what the environment does.
LEMMA EnvironmentTypeOK ==
    ASSUME TypeOK,
           \/ \E u \in Units : HookFails(u) \/ LeaderMoves(u)
           \/ \E ls \in SUBSET Labels : Relate(ls) \/ Announce(ls)
           \/ Break
           \/ Gone
    PROVE  TypeOK'
<1> USE DEF juju, kube, call, TypeOK, Objects, Steps, Goes, EnvSteps
<1>1. ASSUME NEW k \in EnvSteps, Spend(k) PROVE spent' \in [EnvSteps -> Nat]
  BY <1>1 DEF Spend
<1>2. ASSUME NEW u \in Units, HookFails(u) \/ LeaderMoves(u) PROVE TypeOK'
  BY <1>1, <1>2 DEF HookFails, LeaderMoves
<1>3. ASSUME NEW ls \in SUBSET Labels, Relate(ls) \/ Announce(ls) PROVE TypeOK'
  BY <1>1, <1>3 DEF Relate, Announce
<1>4. CASE Break BY <1>1, <1>4 DEF Break
<1>5. CASE Gone BY <1>5 DEF Gone
<1>6. QED BY <1>2, <1>3, <1>4, <1>5

\* Every reachable state is well typed; the ConfigMap, and what a hook means
\* to drop, never name a label that is not managed.
THEOREM TypeCorrect == Spec => []TypeOK
<1>1. TypeOK /\ [Next]_vars => TypeOK'
  <2> SUFFICES ASSUME TypeOK, [Next]_vars PROVE TypeOK'
    OBVIOUS
  <2>1. CASE Next BY <2>1, HookStepTypeOK, EnvironmentTypeOK DEF Next
  <2>2. CASE UNCHANGED vars
    BY <2>2 DEF vars, juju, kube, call, TypeOK
  <2>3. QED BY <2>1, <2>2
<1>2. QED BY InitTypeOK, <1>1, PTL DEF Spec

-----------------------------------------------------------------------------
\* A step other than a patch, or the removal of the ConfigMap, leaves the
\* labels alone.
LEMMA OnlyPatchesLabel ==
    ASSUME Next
    PROVE  \/ \E u \in Units : \/ PatchConfigMap(u)
                               \/ PatchStatefulSet(u)
                               \/ PatchService(u)
                               \/ DeleteMap(u)
           \/ keys' = keys
<1> USE DEF kube, call
<1>1. ASSUME NEW u \in Units, HookStep(u)
      PROVE  \/ PatchConfigMap(u) \/ PatchStatefulSet(u) \/ PatchService(u)
             \/ DeleteMap(u) \/ keys' = keys
  BY <1>1 DEF HookStep, Handle, GetObjects, GetMap, CreateMap, Conflict
<1>2. QED
  BY <1>1 DEF Next, HookFails, LeaderMoves, Relate, Announce, Break, Gone

\* Foreign labels are never lost (ForeignKept), because only managed labels
\* are ever dropped, and those of the two kinds are distinct.
THEOREM ForeignLabelsKept == Spec => []ForeignKept
<1>1. Init => ForeignKept
  BY DEF Init, ForeignKept, Workload, Objects
<1>2. TypeOK /\ ForeignKept /\ [Next]_vars => ForeignKept'
  <2> SUFFICES ASSUME TypeOK, ForeignKept, [Next]_vars PROVE ForeignKept'
    OBVIOUS
  <2>1. ASSUME NEW u \in Units, NEW o \in Objects, NEW next, Patch(u, o, next)
        PROVE  ForeignKept'
    BY <2>1, ConstantsAssumption DEF Patch, ForeignKept, Workload, Objects, TypeOK
  <2>2. ASSUME NEW u \in Units, DeleteMap(u) PROVE ForeignKept'
    BY <2>2 DEF DeleteMap, ForeignKept, Workload, Objects, TypeOK
  <2>3. CASE Next
    <3>1. ASSUME keys' = keys PROVE ForeignKept'
      BY <3>1 DEF ForeignKept
    <3>2. QED
      BY <2>1, <2>2, <2>3, <3>1, OnlyPatchesLabel
         DEF PatchConfigMap, PatchStatefulSet, PatchService, Objects
  <2>4. CASE UNCHANGED vars BY <2>4 DEF vars, kube, ForeignKept
  <2>5. QED BY <2>3, <2>4
<1>3. QED BY <1>1, <1>2, TypeCorrect, PTL DEF Spec
-----------------------------------------------------------------------------
(* A single unit whose calls succeed.                                        *)

\* What the objects should carry.
Target == IF relation = "alive" THEN announced ELSE {}

Managed(o) == keys[o] \cap Labels

\* Which hooks are queued, and which one runs, as the relation comes and goes.
QueueInv ==
    \A u \in Units :
        /\ leader = u
        /\ pc[u] # "error"
        /\ relation = "none" => todo[u] = {} /\ pc[u] = "idle"
        /\ relation = "alive" => /\ todo[u] \subseteq {"changed"}
                                 /\ pc[u] # "idle" => ev[u] = "changed"
                                 /\ u \notin seen => todo[u] = {"changed"}
        /\ relation = "dying" => /\ todo[u] \subseteq {"broken"}
                                 /\ pc[u] # "idle" =>
                                      (ev[u] = "broken" <=> todo[u] = {})
        /\ ev[u] = "broken" /\ pc[u] # "idle" => want[u] = {}
        /\ pc[u] = "delete" => ev[u] = "broken"

\* What the hook has read is current at each of its calls.
ReadInv ==
    \A u \in Units :
        /\ pc[u] \in {"get-map", "create-map", "configmap", "statefulset"} =>
             read[u]["statefulset"] = version["statefulset"]
        /\ pc[u] \in {"get-map", "create-map", "configmap", "statefulset", "service"} =>
             read[u]["service"] = version["service"]
        /\ pc[u] \in {"get-map", "create-map"} => read[u]["configmap"] = 0
        /\ pc[u] = "create-map" => ~mapExists
        /\ pc[u] = "configmap" => read[u]["configmap"] \in {0, version["configmap"]}
        /\ pc[u] \in {"configmap", "statefulset", "service", "delete"} => mapExists

\* The record, the StatefulSet and the Service fall behind one another only
\* while the hook is between its patches.
RecordInv ==
    \A u \in Units :
        /\ ~mapExists => keys["configmap"] = {}
        /\ pc[u] \in {"idle", "get", "get-map", "create-map", "configmap"} =>
             Managed("statefulset") = keys["configmap"]
        /\ pc[u] \in {"idle", "get", "get-map", "create-map", "configmap", "statefulset"} =>
             Managed("service") = Managed("statefulset")
        /\ pc[u] = "configmap" => drop[u] = keys["configmap"] \ want[u]
        /\ pc[u] \in {"statefulset", "service", "delete"} => keys["configmap"] = want[u]
        /\ pc[u] = "statefulset" => drop[u] = Managed("statefulset") \ want[u]
        /\ pc[u] = "service" => drop[u] = Managed("service") \ want[u]
        /\ pc[u] \in {"service", "delete"} => Managed("statefulset") = want[u]
        /\ pc[u] = "delete" => Managed("service") = want[u]

\* A hook with nothing queued behind it works for what is wanted now.
TargetInv ==
    \A u \in Units :
        todo[u] = {} => IF pc[u] = "idle" THEN keys["configmap"] = Target
                                          ELSE want[u] = Target

\* A relation that no hook has seen has left no labels.
UnseenInv ==
    \A u \in Units : u \notin seen /\ relation = "alive" =>
        pc[u] = "idle" /\ keys["configmap"] = {}

LabelInv == /\ TypeOK /\ QueueInv /\ ReadInv /\ RecordInv
            /\ TargetInv /\ UnseenInv

\* The invariant holds initially.
LEMMA InitLabelInv ==
    ASSUME NEW w, Units = {w}, Init
    PROVE  LabelInv
<1>1. Foreign \cap Labels = {} BY ConstantsAssumption
<1>2. QueueInv /\ ReadInv BY DEF Init, QueueInv, ReadInv
<1>3. RecordInv BY <1>1 DEF Init, RecordInv, Managed, Objects
<1>4. TargetInv /\ UnseenInv BY DEF Init, TargetInv, UnseenInv, Target, Objects
<1>5. QED BY <1>2, <1>3, <1>4, InitTypeOK DEF LabelInv

\* The hook's steps other than its patches.
LEMMA HandleLabelInv ==
    ASSUME NEW w, Units = {w}, LabelInv, NEW e \in {"changed", "broken"}, Handle(w, e)
    PROVE  QueueInv' /\ ReadInv' /\ RecordInv' /\ TargetInv' /\ UnseenInv'
<1> USE DEF kube, LabelInv, TypeOK
<1>1. /\ pc[w] = "idle" /\ e \in todo[w] /\ leader = w
      /\ pc' = [pc EXCEPT ![w] = "get"]
      /\ relation # "none"
      /\ relation = "alive" => e = "changed"
      /\ relation = "dying" => e = "broken"
  BY DEF Handle, Deliverable, QueueInv
<1>2. todo'[w] = todo[w] \ {e} /\ ev'[w] = e /\ want'[w] = WantedLabels(e) /\ pc'[w] = "get"
  BY <1>1 DEF Handle
<1>3. QueueInv' BY <1>1, <1>2 DEF Handle, QueueInv, WantedLabels
<1>4. ReadInv' BY <1>2 DEF ReadInv
<1>5. RecordInv' BY <1>1, <1>2 DEF Handle, RecordInv, Managed
<1>6. TargetInv' BY <1>1, <1>2 DEF Handle, TargetInv, Target, WantedLabels
<1>7. UnseenInv' BY <1>1, <1>2 DEF Handle, UnseenInv
<1>8. QED BY <1>3, <1>4, <1>5, <1>6, <1>7

LEMMA ReadLabelInv ==
    ASSUME NEW w, Units = {w}, LabelInv, GetObjects(w) \/ GetMap(w) \/ CreateMap(w)
    PROVE  QueueInv' /\ ReadInv' /\ RecordInv' /\ TargetInv' /\ UnseenInv'
<1> USE DEF juju, kube, LabelInv, TypeOK, Goes
<1>1. CASE GetObjects(w)
  <2>1. /\ pc[w] = "get" /\ pc'[w] = "get-map"
        /\ read'[w] = [o \in Objects |-> IF o = "configmap" THEN 0 ELSE version[o]]
    BY <1>1 DEF GetObjects
  <2>2. QueueInv' BY <1>1, <2>1 DEF GetObjects, QueueInv
  <2>3. ReadInv' BY <1>1, <2>1 DEF GetObjects, ReadInv, Objects
  <2>4. RecordInv' BY <1>1, <2>1 DEF GetObjects, RecordInv, Managed
  <2>5. TargetInv' /\ UnseenInv'
    BY <1>1, <2>1 DEF GetObjects, TargetInv, UnseenInv, Target
  <2>6. QED BY <2>2, <2>3, <2>4, <2>5
<1>2. CASE GetMap(w)
  <2>1. /\ pc[w] = "get-map" /\ pc'[w] = IF mapExists THEN "configmap" ELSE "create-map"
        /\ mapExists => drop'[w] = keys["configmap"] \ want[w]
        /\ read'[w]["statefulset"] = read[w]["statefulset"]
        /\ read'[w]["service"] = read[w]["service"]
        /\ read'[w]["configmap"] \in {0, version["configmap"]}
        /\ ~mapExists => read'[w]["configmap"] = 0
    BY <1>2 DEF GetMap, Forgotten, Objects, ReadInv
  <2>2. QueueInv' BY <1>2, <2>1 DEF GetMap, QueueInv
  <2>3. ReadInv' BY <1>2, <2>1 DEF GetMap, ReadInv
  <2>4. RecordInv' BY <1>2, <2>1 DEF GetMap, RecordInv, Managed
  <2>5. TargetInv' /\ UnseenInv'
    BY <1>2, <2>1 DEF GetMap, TargetInv, UnseenInv, Target
  <2>6. QED BY <2>2, <2>3, <2>4, <2>5
<1>3. CASE CreateMap(w)
  <2>1. /\ pc[w] = "create-map" /\ pc'[w] = "configmap" /\ mapExists' /\ keys["configmap"] = {}
        /\ drop'[w] = {} /\ read' = read /\ read[w]["configmap"] = 0
        /\ version'["statefulset"] = version["statefulset"]
        /\ version'["service"] = version["service"]
    BY <1>3 DEF CreateMap, Objects, ReadInv, RecordInv
  <2>2. QueueInv' BY <1>3, <2>1 DEF CreateMap, QueueInv
  <2>3. ReadInv' BY <2>1 DEF ReadInv
  <2>4. RecordInv' BY <1>3, <2>1 DEF CreateMap, RecordInv, Managed
  <2>5. TargetInv' /\ UnseenInv'
    BY <1>3, <2>1 DEF CreateMap, TargetInv, UnseenInv, Target
  <2>6. QED BY <2>2, <2>3, <2>4, <2>5
<1>4. QED BY <1>1, <1>2, <1>3

\* The patches, and the removal of the ConfigMap.
LEMMA PatchLabelInv ==
    ASSUME NEW w, Units = {w}, LabelInv,
           PatchConfigMap(w) \/ PatchStatefulSet(w) \/ PatchService(w) \/ DeleteMap(w)
    PROVE  QueueInv' /\ ReadInv' /\ RecordInv' /\ TargetInv' /\ UnseenInv'
<1> USE DEF juju, LabelInv, TypeOK, Goes
<1>1. CASE PatchConfigMap(w)
  <2> USE <1>1 DEF PatchConfigMap, Patch
  <2>1. /\ pc[w] = "configmap" /\ pc'[w] = "statefulset"
        /\ keys'["configmap"] = want[w]
        /\ \A o \in Workload : keys'[o] = keys[o] /\ version'[o] = version[o]
    BY DEF Objects, Workload
  <2>2. QueueInv' BY <2>1 DEF QueueInv
  <2>3. ReadInv' BY <2>1 DEF ReadInv, Workload
  <2>4. RecordInv' BY <2>1 DEF RecordInv, Managed, Workload
  <2>5. TargetInv' /\ UnseenInv' BY <2>1 DEF TargetInv, UnseenInv, Target
  <2>6. QED BY <2>2, <2>3, <2>4, <2>5
<1>2. CASE PatchStatefulSet(w)
  <2> USE <1>2 DEF PatchStatefulSet, Patch
  <2>1. /\ pc[w] = "statefulset" /\ pc'[w] = "service"
        /\ keys'["statefulset"] = (keys["statefulset"] \cup want[w]) \ drop[w]
        /\ \A o \in {"configmap", "service"} : keys'[o] = keys[o] /\ version'[o] = version[o]
    BY DEF Objects
  <2>2. QueueInv' BY <2>1 DEF QueueInv
  <2>3. ReadInv' BY <2>1 DEF ReadInv
  <2>4. Managed("statefulset")' = want[w] /\ Managed("service")' = Managed("statefulset")
    BY <2>1 DEF RecordInv, Managed
  <2>5. RecordInv' BY <2>1, <2>4 DEF RecordInv
  <2>6. TargetInv' /\ UnseenInv' BY <2>1 DEF TargetInv, UnseenInv, Target
  <2>7. QED BY <2>2, <2>3, <2>5, <2>6
<1>3. CASE PatchService(w)
  <2> USE <1>3 DEF PatchService, Patch
  <2>1. /\ pc[w] = "service" /\ pc'[w] = IF ev[w] = "broken" THEN "delete" ELSE "idle"
        /\ keys'["service"] = (keys["service"] \cup want[w]) \ drop[w]
        /\ \A o \in {"configmap", "statefulset"} : keys'[o] = keys[o] /\ version'[o] = version[o]
    BY DEF Objects
  <2>2. QueueInv' BY <2>1 DEF QueueInv
  <2>3. ReadInv' BY <2>1 DEF ReadInv
  <2>4. /\ Managed("service")' = want[w]
        /\ Managed("statefulset")' = Managed("statefulset")
    BY <2>1 DEF RecordInv, Managed
  <2>5. RecordInv' BY <2>1, <2>4 DEF RecordInv
  <2>6. TargetInv' /\ UnseenInv'
    BY <2>1 DEF TargetInv, UnseenInv, Target, QueueInv, RecordInv
  <2>7. QED BY <2>2, <2>3, <2>5, <2>6
<1>4. CASE DeleteMap(w)
  <2> USE <1>4 DEF DeleteMap
  <2>1. /\ pc[w] = "delete" /\ pc'[w] = "idle" /\ want[w] = {} /\ ev[w] = "broken"
        /\ keys'["configmap"] = {}
        /\ \A o \in Workload : keys'[o] = keys[o]
    BY DEF Objects, Workload, QueueInv
  <2>2. QueueInv' BY <2>1 DEF QueueInv
  <2>3. ReadInv' BY <2>1 DEF ReadInv
  <2>4. RecordInv' BY <2>1 DEF RecordInv, Managed, Workload
  <2>5. TargetInv' /\ UnseenInv'
    BY <2>1 DEF TargetInv, UnseenInv, Target, QueueInv
  <2>6. QED BY <2>2, <2>3, <2>4, <2>5
<1>5. QED BY <1>1, <1>2, <1>3, <1>4

\* What the environment does; calls do not fail, and a single unit meets no
\* conflict.
LEMMA EnvironmentLabelInv ==
    ASSUME NEW w, Units = {w}, Limit["fault"] = 0, LabelInv,
           \/ HookFails(w) \/ LeaderMoves(w) \/ Conflict(w)
           \/ \E ls \in SUBSET Labels : Relate(ls) \/ Announce(ls)
           \/ Break
           \/ Gone
    PROVE  QueueInv' /\ ReadInv' /\ RecordInv' /\ TargetInv' /\ UnseenInv'
<1> USE DEF juju, kube, call, LabelInv, TypeOK
<1>1. ~HookFails(w) BY DEF HookFails, Spend, EnvSteps
<1>2. ~LeaderMoves(w) BY DEF LeaderMoves, QueueInv
<1>3. ~Conflict(w)
  <2>1. /\ pc[w] \in {"configmap", "delete"} => mapExists
        /\ pc[w] = "create-map" => ~mapExists
    BY DEF ReadInv
  <2>2. pc[w] \in {"configmap", "statefulset", "service"} =>
          read[w][pc[w]] \in {0, version[pc[w]]}
    BY DEF ReadInv
  <2>3. QED BY <2>1, <2>2 DEF Conflict
<1>4. ASSUME keys' = keys, pc' = pc, UNCHANGED <<read, version, mapExists, want, drop>>
      PROVE  ReadInv' /\ RecordInv'
  BY <1>4 DEF ReadInv, RecordInv, Managed
<1>5. ASSUME NEW ls \in SUBSET Labels, Relate(ls) \/ Announce(ls)
      PROVE  QueueInv' /\ ReadInv' /\ RecordInv' /\ TargetInv' /\ UnseenInv'
  <2>1. CASE Relate(ls)
    <3>1. QueueInv' /\ TargetInv' BY <2>1 DEF Relate, QueueInv, TargetInv
    <3>2. UnseenInv'
      BY <2>1 DEF Relate, UnseenInv, QueueInv, TargetInv, Target
    <3>3. QED BY <2>1, <1>4, <3>1, <3>2 DEF Relate
  <2>2. CASE Announce(ls)
    <3>1. QueueInv' /\ TargetInv' BY <2>2 DEF Announce, QueueInv, TargetInv
    <3>2. QED BY <2>2, <1>4, <3>1 DEF Announce, UnseenInv
  <2>3. QED BY <1>5, <2>1, <2>2
<1>6. CASE Break
  <2>1. QueueInv' BY <1>6 DEF Break, QueueInv, UnseenInv
  <2>2. TargetInv' BY <1>6 DEF Break, TargetInv, Target, UnseenInv
  <2>3. QED BY <1>6, <1>4, <2>1, <2>2 DEF Break, UnseenInv
<1>7. CASE Gone
  <2>1. TargetInv' BY <1>7 DEF Gone, TargetInv, Target
  <2>2. QED BY <1>7, <1>4, <2>1 DEF Gone, UnseenInv, QueueInv
<1>8. QED BY <1>1, <1>2, <1>3, <1>5, <1>6, <1>7

\* A single unit whose calls succeed (QuietLabels): once it has nothing left to
\* do, the StatefulSet and the Service carry the labels asked for, whatever
\* the beacon announced before and however often it was related.
THEOREM OneUnitQuiet ==
    ASSUME NEW w, Units = {w}, Limit["fault"] = 0
    PROVE  Spec => []QuietLabels
<1>1. Init => LabelInv BY InitLabelInv
<1>2. LabelInv /\ [Next]_vars => LabelInv'
  <2> SUFFICES ASSUME LabelInv, [Next]_vars PROVE LabelInv'
    OBVIOUS
  <2>1. TypeOK'
    <3>1. CASE Next
      BY <3>1, HookStepTypeOK, EnvironmentTypeOK DEF Next, LabelInv
    <3>2. CASE UNCHANGED vars
      BY <3>2 DEF vars, juju, kube, call, TypeOK, LabelInv
    <3>3. QED BY <3>1, <3>2
  <2>2. CASE Next
    BY <2>1, <2>2, HandleLabelInv, ReadLabelInv, PatchLabelInv, EnvironmentLabelInv
       DEF Next, HookStep, LabelInv
  <2>3. CASE UNCHANGED vars
    BY <2>1, <2>3 DEF vars, juju, kube, call, LabelInv, QueueInv, ReadInv,
       RecordInv, TargetInv, UnseenInv, Target, Managed
  <2>4. QED BY <2>2, <2>3
<1>3. LabelInv => QuietLabels
  BY DEF LabelInv, QuietLabels, Quiet, RecordInv, TargetInv, Target, Managed, Workload
<1>4. QED BY <1>1, <1>2, <1>3, PTL DEF Spec
=============================================================================
