--------------------------- MODULE MCServicePatch ---------------------------
(* Instances of ServicePatch for TLC: how often each step of the environment *)
(* may happen.                                                               *)
EXTENDS ServicePatch

Allow(steps) == [k \in EnvSteps |-> IF k \in DOMAIN steps THEN steps[k] ELSE 0]

\* two units that come and go, while Juju and the administrator interfere
PatchLimit == Allow([add |-> 1, leave |-> 1, upgrade |-> 1, apply |-> 2,
                     trust |-> 2, fault |-> 1, outage |-> 1])

ScaleDownLimit == Allow([leave |-> 1])
=============================================================================
